---- MODULE Spec2Model ----
(***************************************************************************)
(* KGDreamInvest: LLM budget and JSON adapter, guarded trade executor,     *)
(* Think worker and insight approval, modelled from the Python sources.    *)
(*                                                                         *)
(* Number representation.  The program computes in floats; the model uses  *)
(* fixed point integers: money in whole dollars, share quantities in       *)
(* 1/100 share (QTY_SCALE), percentages in percent, confidence in          *)
(* hundredths, critic scores in 1/10000 and avg_cost in cents.  Division   *)
(* is floor division.  Timestamps, notes, reasons and the event log are    *)
(* left out of the rows.                                                   *)
(***************************************************************************)
EXTENDS Integers, Sequences, FiniteSets, TLC

VARIABLES
    now,            \* wall clock, whole seconds since the budget was built
    budget,         \* LLMBudget: [window_start, calls, last_error]
    grants,         \* timestamps of the recent acquire() calls that returned True
    chat,           \* per caller: the chat_json call in progress
    llm_cfg,        \* Config.LLM_PROVIDER and whether OpenRouter is usable
    prices,         \* prices of the latest snapshot: symbol -> current price
    cash,           \* portfolio row k='cash'
    positions,      \* positions table: symbol -> row
    trades,         \* trades table, in insertion order
    ex,             \* the execute_trades call in progress (its local variables)
    cycles,         \* number of execute_trades calls begun so far
    snap_id,        \* id of the latest snapshot row, 0 when there is none
    insights,       \* insights table, insight_id = index
    think,          \* the ThinkWorker.step_once call in progress
    approve,        \* per client: the insight_approve request in progress
    db_lock,        \* holder of DB_LOCK
    market_open,    \* market_is_open_et() at this moment
    cfg,            \* AUTO_TRADE, TRADE_ANYTIME, BROKER_PROVIDER
    snapshots,      \* snapshots table: the snapshot_id of its rows
    events,         \* number of market/tick rows of dream_log
    lookups,        \* number of rows of ticker_lookups
    mkt,            \* the store transaction of the Market step in progress
    workers,        \* per worker: running, stop, the loop thread, stats
    ctl,            \* per worker: the last start()/stop_now() call made on it
    san,            \* a sanitize_decisions call: its argument and its result
    kg,             \* nodes, edges, edge_channels tables and the graph clock
    critic,           \* the latest two critic_score calls: arguments and result
    fetch,          \* a last_close_many call: providers' state and result
    recon,          \* the run of the reconciliation utility in progress
    life,           \* one worker's flags, Thread objects and control requests
    dream,          \* the _assess_pair call in progress
    api             \* the budget of src.llm.budget and the stats last reported

budgetVars == <<now, budget, grants, chat, llm_cfg>>
storeVars == <<prices, cash, positions, trades>>
execVars == <<ex, cycles>>
thinkVars == <<snap_id, insights, think, approve, db_lock, market_open, cfg>>
marketVars == <<snapshots, events, lookups, mkt>>
loopVars == <<workers, ctl>>
utilVars == <<recon, life, dream, api>>
fnVars == <<san, kg, critic, fetch, utilVars>>

vars == <<now, budget, grants, chat, llm_cfg, prices, cash, positions, trades,
          ex, cycles, snap_id, insights, think, approve, db_lock, market_open, cfg,
          snapshots, events, lookups, mkt, workers, ctl, san, kg,
          critic, fetch, recon, life, dream, api>>

(***************************************************************************)
(* Bounds of the model                                                     *)
(***************************************************************************)
MaxTime == 120          \* the clock stops advancing here

(***************************************************************************)
(* Program constants                                                       *)
(***************************************************************************)
LLM_CALLS_PER_MIN == 2  \* LLM_CALLS_PER_MIN (default 8), kept small
LLM_MAX_REASK == 1
WINDOW_SECS == 60

NIL == "nil"

Callers == {"think", "dream"}
TimeSteps == {30}

Max(a, b) == IF a >= b THEN a ELSE b
Min(a, b) == IF a <= b THEN a ELSE b

(***************************************************************************)
(* LLMBudget                                                               *)
(***************************************************************************)
\* LLMBudget.__init__
NewBudget(cpm, t) ==
    [calls_per_min |-> Max(1, cpm), window_start |-> t, calls |-> 0,
     last_error |-> NIL]

\* LLMBudget._reset_if_needed
ResetIfNeeded(b, t) ==
    IF t - b.window_start >= WINDOW_SECS
    THEN [b EXCEPT !.window_start = t, !.calls = 0]
    ELSE b

\* faulty variant: a refused call is counted too
AcquireEager(b, t) ==
    LET r == ResetIfNeeded(b, t) IN
    IF r.calls >= r.calls_per_min
    THEN <<FALSE, [r EXCEPT !.calls = r.calls + 1]>>
    ELSE <<TRUE, [r EXCEPT !.calls = r.calls + 1]>>

\* LLMBudget.acquire: <<returned value, budget afterwards>>
Acquire(b, t) ==
    LET r == ResetIfNeeded(b, t) IN
    IF r.calls >= r.calls_per_min
    THEN <<FALSE, r>>
    ELSE <<TRUE, [r EXCEPT !.calls = r.calls + 1]>>

\* LLMBudget.stats
Stats(b, t) ==
    LET r == ResetIfNeeded(b, t) IN
    [calls_used |-> r.calls, calls_budget |-> r.calls_per_min,
     last_error |-> r.last_error]

(***************************************************************************)
(* chat_json (ollama_chat_json / openrouter_chat_json)                     *)
(***************************************************************************)
\* Provider responses: the text and whether extract_json finds an object.
RawTexts == {"json_a", "prose_b", "prose_c"}
ExtractJson(raw) == IF raw = "json_a" THEN "obj_a" ELSE NIL

\* requests counts the provider calls made, answered those that came back
\* with a text
IdleChat == [pc |-> "idle", raw |-> NIL, reasks |-> 0, requests |-> 0,
             answered |-> 0, obj |-> NIL, ret_raw |-> NIL, acquired |-> FALSE]

\* faulty variant: one repair attempt too many
ReaskLimitLoose == Max(0, LLM_MAX_REASK) + 1

\* for attempt in range(max(0, Config.LLM_MAX_REASK))
ReaskLimit == Max(0, LLM_MAX_REASK)

\* faulty variant: the last response is dropped
ParseFailNoRaw(sent, raw) ==
    [sent EXCEPT !.pc = "done", !.obj = NIL, !.ret_raw = NIL]

\* return None, raw  (raw is the last response: raw = raw2 in the loop)
ParseFailReturn(sent, raw) ==
    [sent EXCEPT !.pc = "done", !.obj = NIL, !.ret_raw = raw]

\* faulty variant: the exception leaves chat_json
ErrorPropagates(ch) == [ch EXCEPT !.pc = "raised", !.requests = @ + 1]

\* except Exception as e: ... return None, None
ErrorReturn(ch) ==
    [ch EXCEPT !.pc = "done", !.obj = NIL, !.ret_raw = NIL, !.requests = @ + 1]

\* if not budget.acquire(): return None, None
ChatBegin(c) ==
    /\ chat[c].pc = "idle"
    /\ LET a == Acquire(budget, now) IN
        IF ~a[1]
        THEN /\ budget' = a[2]
             /\ grants' = grants
             /\ chat' = [chat EXCEPT ![c] = [IdleChat EXCEPT !.pc = "done"]]
        ELSE /\ grants' = Append(grants, now)
             /\ IF llm_cfg.provider = "openrouter" /\ ~llm_cfg.openrouter_ok
                \* langchain-openai not available / OPENROUTER_API_KEY not set
                THEN /\ budget' = [a[2] EXCEPT !.last_error = "not_configured"]
                     /\ chat' = [chat EXCEPT ![c] =
                            [IdleChat EXCEPT !.pc = "done", !.acquired = TRUE]]
                ELSE /\ budget' = a[2]
                     /\ chat' = [chat EXCEPT ![c] =
                            [IdleChat EXCEPT !.pc = "call", !.acquired = TRUE]]
    /\ UNCHANGED <<now, llm_cfg, storeVars, execVars, thinkVars,
                   marketVars, loopVars, fnVars>>

\* the caller takes the returned pair
ChatReturn(c) ==
    /\ chat[c].pc = "done"
    /\ chat' = [chat EXCEPT ![c] = IdleChat]
    /\ UNCHANGED <<now, budget, grants, llm_cfg, storeVars, execVars, thinkVars,
                   marketVars, loopVars, fnVars>>

\* raw = _call(msgs) answered with text: parse, return or go on to re-ask
ChatResponse(c, raw) ==
    /\ chat[c].pc = "call"
    /\ LET parsed == ExtractJson(raw)
           sent == [chat[c] EXCEPT !.requests = @ + 1, !.answered = @ + 1,
                                   !.raw = raw] IN
       IF parsed # NIL
       THEN /\ budget' = [budget EXCEPT !.last_error = NIL]
            /\ chat' = [chat EXCEPT ![c] =
                   [sent EXCEPT !.pc = "done", !.obj = parsed, !.ret_raw = raw]]
       ELSE IF chat[c].reasks < ReaskLimit
       THEN /\ budget' = budget
            /\ chat' = [chat EXCEPT ![c] = [sent EXCEPT !.reasks = @ + 1]]
       ELSE /\ budget' = [budget EXCEPT !.last_error = "parse_fail"]
            /\ chat' = [chat EXCEPT ![c] = ParseFailReturn(sent, raw)]
    /\ UNCHANGED <<now, grants, llm_cfg, storeVars, execVars, thinkVars,
                   marketVars, loopVars, fnVars>>

\* _call raises (transport error, non-200, timeout): except Exception branch
ChatTransportError(c) ==
    /\ chat[c].pc = "call"
    /\ budget' = [budget EXCEPT !.last_error = "transport"]
    /\ chat' = [chat EXCEPT ![c] = ErrorReturn(chat[c])]
    /\ UNCHANGED <<now, grants, llm_cfg, storeVars, execVars, thinkVars,
                   marketVars, loopVars, fnVars>>

\* time.time() moves on
Tick(d) ==
    /\ now + d <= MaxTime
    /\ now' = now + d
    /\ grants' = SelectSeq(grants, LAMBDA t : t > now + d - 2 * WINDOW_SECS)
    /\ UNCHANGED <<budget, chat, llm_cfg, storeVars, execVars, thinkVars,
                   marketVars, loopVars, fnVars>>

BudgetStart ==
    /\ now = 0
    /\ budget = NewBudget(LLM_CALLS_PER_MIN, 0)
    /\ grants = << >>
    /\ chat = [c \in Callers |-> IdleChat]
    /\ llm_cfg \in [provider : {"ollama", "openrouter"}, openrouter_ok : BOOLEAN]

BudgetNext ==
    \/ \E c \in Callers : ChatBegin(c)
    \/ \E c \in Callers : ChatReturn(c)
    \/ \E c \in Callers, raw \in RawTexts : ChatResponse(c, raw)
    \/ \E c \in Callers : ChatTransportError(c)
    \/ \E d \in TimeSteps : Tick(d)


(***************************************************************************)
(* Portfolio store and the guarded executor                                *)
(***************************************************************************)
START_CASH == 10000
MIN_TRADE_NOTIONAL == 25
MAX_BUY_EQUITY_PCT_PER_CYCLE == 18
MAX_SELL_HOLDING_PCT_PER_CYCLE == 35
MAX_SYMBOL_WEIGHT_PCT == 14
MIN_CASH_BUFFER_PCT == 12
QTY_SCALE == 100        \* quantities are counted in 1/100 share
CENTS == 100            \* avg_cost is kept in cents

Investibles == <<"AAA", "BBB", "XLV">>
Symbols == {Investibles[i] : i \in 1..Len(Investibles)}

RECURSIVE SumOver(_, _)
SumOver(f, S) ==
    IF S = {} THEN 0
    ELSE LET x == CHOOSE y \in S : TRUE IN f[x] + SumOver(f, S \ {x})

\* px(sym): float(prices.get(sym, {}).get("current", 0.0) or 0.0)
Px(pr, sym) == IF sym \in DOMAIN pr THEN pr[sym] ELSE 0

\* get_cash / set_cash read and write the row k='cash'
GetCash(c) == c

\* portfolio_state: equity and the per symbol market values and quantities
RowPrice(pos, pr, sym) ==
    IF sym \in DOMAIN pr THEN pr[sym] ELSE pos[sym].last_price

PortfolioState(c, pos, pr) ==
    LET mv == [s \in DOMAIN pos |-> (pos[s].qty * RowPrice(pos, pr, s)) \div QTY_SCALE]
    IN [cash |-> c,
        equity |-> c + SumOver(mv, DOMAIN pos),
        mv |-> [s \in Symbols |-> IF s \in DOMAIN pos THEN mv[s] ELSE 0],
        qty |-> [s \in Symbols |-> IF s \in DOMAIN pos THEN pos[s].qty ELSE 0]]

\* local variables of execute_paper_trades after lines 87-100
BeginCycle(c, pos, tr, pr) ==
    LET pf == PortfolioState(c, pos, pr) IN
    [cash |-> GetCash(c),
     equity |-> pf.equity,
     mv_by_sym |-> pf.mv,
     qty_by_sym |-> pf.qty,
     buy_budget |-> (pf.equity * MAX_BUY_EQUITY_PCT_PER_CYCLE) \div 100,
     cash_buffer |-> (pf.equity * MIN_CASH_BUFFER_PCT) \div 100,
     positions |-> pos,
     trades |-> tr,
     executed |-> << >>,
     skipped |-> << >>,
     brk |-> FALSE]

Trade(sym, side, q, p, n, iid) ==
    [symbol |-> sym, side |-> side, qty |-> q, price |-> p, notional |-> n,
     insight_id |-> iid]

\* remove a row of a table kept as a function
DeleteRow(pos, sym) == [s \in (DOMAIN pos) \ {sym} |-> pos[s]]
\* INSERT OR REPLACE
UpsertRow(pos, sym, row) ==
    [s \in (DOMAIN pos) \cup {sym} |-> IF s = sym THEN row ELSE pos[s]]

\* one iteration of the SELL pass (trading.py 110-163)
SellSlice(st, d, pr, iid, ts) ==
    IF d.action # "SELL" THEN st
    ELSE IF d.ticker \notin DOMAIN pr THEN st
    ELSE LET sym == d.ticker
             have == st.qty_by_sym[sym] IN
    IF have <= 0 THEN st
    ELSE LET pct == Min(d.allocation_pct, MAX_SELL_HOLDING_PCT_PER_CYCLE) IN
    IF pct <= 0 THEN st
    ELSE LET sell_sh == (have * pct) \div 100
             p == Px(pr, sym)
             notional == (sell_sh * p) \div QTY_SCALE IN
    IF notional < MIN_TRADE_NOTIONAL
    THEN [st EXCEPT !.skipped = Append(@, <<"SELL notional too small", sym>>)]
    ELSE LET new_have == have - sell_sh IN
         [st EXCEPT
            !.cash = @ + notional,
            !.qty_by_sym[sym] = new_have,
            !.mv_by_sym[sym] = (new_have * p) \div QTY_SCALE,
            !.positions =
                IF new_have <= 0 THEN DeleteRow(@, sym)
                ELSE IF sym \in DOMAIN @
                     THEN [@ EXCEPT ![sym].qty = new_have, ![sym].last_price = p]
                     ELSE @,
            !.trades = Append(@, Trade(sym, "SELL", sell_sh, p, notional, iid)),
            !.executed = Append(@, [ticker |-> sym, side |-> "SELL",
                                    shares |-> sell_sh, notional |-> notional])]

\* faulty variant: the cash buffer is not held back
SpendableAll(c, buffer) == Max(0, c)

\* spendable = max(0.0, cash - cash_buffer)
Spendable(c, buffer) == Max(0, c - buffer)

\* faulty variant: a symbol may take the whole equity
SymbolCapAll(equity) == equity

\* cap = equity * (MAX_SYMBOL_WEIGHT_PCT / 100.0)
SymbolCap(equity) == (equity * MAX_SYMBOL_WEIGHT_PCT) \div 100

\* one iteration of the BUY pass (trading.py 166-247)
\* faulty variant: the cost of the last purchase replaces the average
NewAvgLast(avg, have, p, shares) == p * CENTS

\* new_avg = (avg * have + p * shares) / max(1e-9, new_qty), in cents
NewAvg(avg, have, p, shares) ==
    (avg * have + p * CENTS * shares) \div Max(1, have + shares)

\* faulty variant: only whole shares are bought for the notional paid
SharesForWhole(notional, p) == (notional \div p) * QTY_SCALE

\* shares = notional / p
SharesFor(notional, p) == (notional * QTY_SCALE) \div p

\* faulty variant: the budget of the cycle is not drawn down
BudgetLeftKept(buy_budget, notional) == buy_budget

\* buy_budget -= notional
BudgetLeft(buy_budget, notional) == buy_budget - notional

BuySlice(st, d, pr, iid, ts) ==
    IF st.brk THEN st
    ELSE IF d.action # "BUY" THEN st
    ELSE IF d.ticker \notin DOMAIN pr THEN st
    ELSE LET sym == d.ticker
             pct == d.allocation_pct
             p == Px(pr, sym) IN
    IF pct <= 0 THEN st
    ELSE IF p <= 0 THEN st
    ELSE LET spendable == Spendable(st.cash, st.cash_buffer) IN
    IF spendable < MIN_TRADE_NOTIONAL
    THEN [st EXCEPT !.skipped = Append(@, <<"BUY: cash buffer prevents spending", sym>>),
                    !.brk = TRUE]
    ELSE LET requested == (st.equity * pct) \div 100
             notional1 == Min(requested, Min(st.buy_budget, spendable)) IN
    IF notional1 < MIN_TRADE_NOTIONAL
    THEN [st EXCEPT !.skipped = Append(@, <<"BUY notional too small", sym>>)]
    ELSE LET current_mv == st.mv_by_sym[sym]
             cap == SymbolCap(st.equity) IN
    IF current_mv >= cap
    THEN [st EXCEPT !.skipped = Append(@, <<"BUY cap reached", sym>>)]
    ELSE LET notional == Min(notional1, Max(0, cap - current_mv)) IN
    IF notional < MIN_TRADE_NOTIONAL
    THEN [st EXCEPT !.skipped = Append(@, <<"BUY cap residual too small", sym>>)]
    ELSE LET shares == SharesFor(notional, p)
             have == st.qty_by_sym[sym]
             hasrow == sym \in DOMAIN st.positions
             avg == IF hasrow THEN st.positions[sym].avg_cost ELSE p * CENTS
             new_qty == have + shares
             new_avg == NewAvg(avg, have, p, shares)
             executed_at == IF hasrow /\ st.positions[sym].executed_at > 0
                            THEN st.positions[sym].executed_at ELSE ts
             budget_left == BudgetLeft(st.buy_budget, notional) IN
         [st EXCEPT
            !.cash = @ - notional,
            !.buy_budget = budget_left,
            !.qty_by_sym[sym] = new_qty,
            !.mv_by_sym[sym] = (new_qty * p) \div QTY_SCALE,
            !.positions = UpsertRow(@, sym,
                [qty |-> new_qty, avg_cost |-> new_avg, last_price |-> p,
                 executed_at |-> executed_at]),
            !.trades = Append(@, Trade(sym, "BUY", shares, p, notional, iid)),
            !.executed = Append(@, [ticker |-> sym, side |-> "BUY",
                                    shares |-> shares, notional |-> notional]),
            !.brk = (budget_left < MIN_TRADE_NOTIONAL)]

\* faulty variant: the BUY loop runs first
PassOrderBuyFirst == <<"BUY", "SELL">>

\* the order of the two loops of the executor: all SELLs, then all BUYs
PassOrder == <<"SELL", "BUY">>

Slice(side, st, d, pr, iid, ts) ==
    IF side = "SELL" THEN SellSlice(st, d, pr, iid, ts)
    ELSE BuySlice(st, d, pr, iid, ts)

\* one loop over the decision list
RECURSIVE Pass(_, _, _, _, _, _, _)
Pass(side, st, ds, i, pr, iid, ts) ==
    IF i > Len(ds) THEN st
    ELSE Pass(side, Slice(side, st, ds[i], pr, iid, ts), ds, i + 1, pr, iid, ts)

\* execute_paper_trades as a whole: the store after the call and the result
ExecutePaperTrades(c, pos, tr, ds, pr, iid, ts) ==
    LET s0 == BeginCycle(c, pos, tr, pr)
        s1 == Pass(PassOrder[1], s0, ds, 1, pr, iid, ts)
        s2 == Pass(PassOrder[2], s1, ds, 1, pr, iid, ts)
    IN [cash |-> s2.cash, positions |-> s2.positions, trades |-> s2.trades,
        executed |-> s2.executed, skipped |-> s2.skipped]

(***************************************************************************)
(* The executor run slice by slice, and the Market worker's price updates  *)
(***************************************************************************)
MaxCycles == 2          \* execute_trades calls per behaviour
MaxSnapshots == 3       \* Market steps per behaviour (the first is in Init)

Dec(t, a, pct) == [ticker |-> t, action |-> a, allocation_pct |-> pct]

\* decision lists handed to the executor
DecisionLists == {
    <<Dec("AAA", "BUY", 80)>>,
    <<Dec("BBB", "BUY", 7), Dec("AAA", "SELL", 80)>>,
    <<Dec("BBB", "BUY", 7), Dec("BBB", "BUY", 7), Dec("BBB", "BUY", 7)>>,
    <<Dec("AAA", "SELL", 12), Dec("AAA", "SELL", 80),
      Dec("BBB", "BUY", 80), Dec("XLV", "BUY", 80)>>,
    <<Dec("XLV", "HOLD", 0), Dec("BBB", "SELL", 15), Dec("AAA", "BUY", 0)>> }

\* "current" prices of a snapshot, in dollars; a symbol may be missing
PriceMaps == {
    [s \in Symbols |-> 10],
    [s \in Symbols |-> IF s = "AAA" THEN 500 ELSE 10],
    [s \in {"AAA", "XLV"} |-> IF s = "AAA" THEN 500 ELSE 10] }

IdleEx == [phase |-> "idle"]

\* execute_paper_trades lines 87-100: read cash and portfolio, set the limits
ExecBegin(ds) ==
    /\ ex.phase \in {"idle", "done"}
    /\ db_lock = "free"
    /\ cycles < MaxCycles
    /\ cycles' = cycles + 1
    /\ ex' = [phase |-> "run", pass |-> 1, i |-> 1, ds |-> ds, pr |-> prices,
              iid |-> cycles + 1,
              st |-> BeginCycle(cash, positions, trades, prices),
              start |-> BeginCycle(cash, positions, trades, prices)]
    /\ UNCHANGED <<budgetVars, marketVars, loopVars, fnVars, storeVars, thinkVars>>

\* one iteration of the current loop; the loop ends at the end of the list
\* (or at a break of the BUY loop) and the next loop starts
ExecStep ==
    /\ ex.phase = "run"
    /\ ex.pass <= Len(PassOrder)
    /\ IF ex.i <= Len(ex.ds) /\ ~(PassOrder[ex.pass] = "BUY" /\ ex.st.brk)
       THEN ex' = [ex EXCEPT
                     !.st = Slice(PassOrder[ex.pass], ex.st, ex.ds[ex.i],
                                  ex.pr, ex.iid, ex.iid),
                     !.i = @ + 1]
       ELSE ex' = [ex EXCEPT !.pass = @ + 1, !.i = 1]
    /\ UNCHANGED <<budgetVars, marketVars, loopVars, fnVars, storeVars, cycles, thinkVars>>

\* set_cash(conn, cash) and the caller's commit
ExecEnd ==
    /\ ex.phase = "run"
    /\ ex.pass > Len(PassOrder)
    /\ cash' = ex.st.cash
    /\ positions' = ex.st.positions
    /\ trades' = ex.st.trades
    /\ ex' = [ex EXCEPT !.phase = "done"]
    /\ UNCHANGED <<budgetVars, marketVars, loopVars, fnVars, prices, cycles, thinkVars>>

\* MarketWorker.step_once, the store transaction: mark positions to market
\* and insert the snapshot
MarkToMarket(pos, pm) ==
    [s \in DOMAIN pos |->
        IF s \in DOMAIN pm THEN [pos[s] EXCEPT !.last_price = pm[s]] ELSE pos[s]]

\* DELETE FROM snapshots WHERE snapshot_id < (SELECT MAX(snapshot_id) - 1500 ...)
SNAPSHOT_KEEP == 1500

\* the tables the Market step writes, as other connections see them
VisibleDb == [positions |-> positions, prices |-> prices, snap_id |-> snap_id,
              snapshots |-> snapshots, events |-> events, lookups |-> lookups]

\* SELECT MAX(snapshot_id)
MaxOf(S) == CHOOSE x \in S : x + 1 \notin S /\ \A y \in S : y <= x

TrimSnapshots(S) ==
    LET newest == MaxOf(S) IN {i \in S : ~(i < newest - SNAPSHOT_KEEP)}

\* the statements of the with db_conn() block, in the order of the code
MarketStages == <<"mark", "lookups", "snapshot", "event", "trim">>

MarketWrite(stage, db, pm) ==
    CASE stage = "mark" ->
             [db EXCEPT !.positions = MarkToMarket(@, pm)]
      [] stage = "lookups" ->
             [db EXCEPT !.lookups = @ + Cardinality(DOMAIN pm)]
      [] stage = "snapshot" ->
             [db EXCEPT !.snap_id = @ + 1,
                        !.snapshots = @ \cup {db.snap_id + 1},
                        !.prices = pm]
      [] stage = "event" ->
             [db EXCEPT !.events = @ + 1]
      [] stage = "trim" ->
             [db EXCEPT !.snapshots = TrimSnapshots(@)]

RECURSIVE MarketWrites(_, _, _)
MarketWrites(k, db, pm) ==
    IF k > Len(MarketStages) THEN db
    ELSE MarketWrites(k + 1, MarketWrite(MarketStages[k], db, pm), pm)

\* the tables after a commit or a rollback
StoreDb(db) ==
    /\ positions' = db.positions
    /\ prices' = db.prices
    /\ snap_id' = db.snap_id
    /\ snapshots' = db.snapshots
    /\ events' = db.events
    /\ lookups' = db.lookups

\* horizon of the model: Market steps taken from a young table and from a
\* table that is about to reach SNAPSHOT_KEEP rows
SnapHorizon(id) ==
    IF id < SNAPSHOT_KEEP - 1 THEN id < MaxSnapshots
    ELSE id < SNAPSHOT_KEEP + MaxSnapshots

IdleMkt == [pc |-> 0]

\* the store transaction of step_once as one step
MarketStep(pm) ==
    /\ ex.phase \in {"idle", "done"}
    /\ db_lock = "free"
    /\ mkt = IdleMkt
    /\ SnapHorizon(snap_id)
    /\ StoreDb(MarketWrites(1, VisibleDb, pm))
    /\ UNCHANGED <<budgetVars, loopVars, fnVars, mkt, cash, trades, execVars,
                   insights, think, approve, db_lock, market_open, cfg>>

\* faulty variant: the statements already executed stay
RollbackKeeps(db, tx) == tx

\* db_conn: except Exception: conn.rollback()
Rollback(db, tx) == db

\* the same transaction statement by statement: with db_conn() takes DB_LOCK
MarketTxBegin(pm) ==
    /\ ex.phase \in {"idle", "done"}
    /\ db_lock = "free"
    /\ mkt = IdleMkt
    /\ SnapHorizon(snap_id)
    /\ db_lock' = "market"
    /\ mkt' = [pc |-> 1, pm |-> pm, tx |-> VisibleDb]
    /\ UNCHANGED <<budgetVars, loopVars, fnVars, storeVars, execVars, snapshots, events,
                   lookups, snap_id, insights, think, approve, market_open, cfg>>

MarketTxWrite ==
    /\ mkt.pc \in 1..Len(MarketStages)
    /\ mkt' = [mkt EXCEPT !.pc = @ + 1,
                          !.tx = MarketWrite(MarketStages[mkt.pc], @, mkt.pm)]
    /\ UNCHANGED <<budgetVars, loopVars, fnVars, storeVars, execVars, snapshots, events,
                   lookups, thinkVars>>

\* conn.commit() and the release of DB_LOCK
MarketTxCommit ==
    /\ mkt.pc = Len(MarketStages) + 1
    /\ StoreDb(mkt.tx)
    /\ db_lock' = "free"
    /\ mkt' = IdleMkt
    /\ UNCHANGED <<budgetVars, loopVars, fnVars, cash, trades, execVars,
                   insights, think, approve, market_open, cfg>>

\* a statement of the block raises: rollback, release, the error goes on
MarketTxFail ==
    /\ mkt.pc \in 1..Len(MarketStages) + 1
    /\ StoreDb(Rollback(VisibleDb, mkt.tx))
    /\ db_lock' = "free"
    /\ mkt' = IdleMkt
    /\ UNCHANGED <<budgetVars, loopVars, fnVars, cash, trades, execVars,
                   insights, think, approve, market_open, cfg>>

\* the tables one Market step per snapshot has written since the first run
MarketStart ==
    /\ snapshots = 1..snap_id
    /\ events = snap_id
    /\ lookups = snap_id * Cardinality(Symbols)
    /\ mkt = IdleMkt

(***************************************************************************)
(* The broker backend: account and position sync, execute_alpaca_trades    *)
(***************************************************************************)
\* what the broker reports: cash, and per symbol qty (1/100 share, negative
\* for a short position), avg_entry_price (cents) and current_price
BrokerPos(q, avg, p) == [qty |-> q, avg_cost |-> avg, last_price |-> p]

BrokerAccounts == {
    [cash |-> 9000, positions |-> [s \in {"AAA"} |-> BrokerPos(10000, 1000, 10)]],
    [cash |-> 12000, positions |-> [s \in {"BBB"} |-> BrokerPos(0 - 500, 1000, 10)]] }

\* decision lists handed to execute_alpaca_trades
BrokerDecisionLists == {
    <<Dec("BBB", "BUY", 7), Dec("AAA", "SELL", 80)>>,
    <<Dec("AAA", "SELL", 12), Dec("BBB", "BUY", 80), Dec("XLV", "BUY", 80)>> }

\* sync_alpaca_positions: upsert every broker position (executed_at is kept
\* for a symbol held locally), delete the local rows the broker does not have
SyncPositions(pos, bpos, ts) ==
    [s \in DOMAIN bpos |->
        [qty |-> bpos[s].qty, avg_cost |-> bpos[s].avg_cost,
         last_price |-> bpos[s].last_price,
         executed_at |-> IF s \in DOMAIN pos THEN pos[s].executed_at ELSE ts]]

\* /api/state with BROKER_PROVIDER = alpaca: sync_alpaca_account and
\* sync_alpaca_positions; each swallows its own failure
StateSync(acct, acct_ok, pos_ok) ==
    /\ cfg.broker = "alpaca"
    /\ ex.phase \in {"idle", "done"}
    /\ db_lock = "free"
    /\ mkt = IdleMkt
    /\ cash' = IF acct_ok THEN acct.cash ELSE cash
    /\ positions' = IF pos_ok THEN SyncPositions(positions, acct.positions, snap_id)
                     ELSE positions
    /\ UNCHANGED <<budgetVars, marketVars, loopVars, fnVars, prices, trades,
                   execVars, thinkVars>>

\* faulty variant: a refused order ends the pass
OrderFailedBreaks(st, side, sym) ==
    [st EXCEPT !.skipped = Append(@, <<"order failed", side, sym>>),
               !.brk = TRUE]

\* except Exception as e: skipped.append(f"{side} {sym} order failed: ...")
OrderFailed(st, side, sym) ==
    [st EXCEPT !.skipped = Append(@, <<"order failed", side, sym>>)]

\* order.id of the n-th order accepted in the cycle of insight iid
OrderId(iid, n) == <<"order_id", iid, n>>
\* the reason argument of execute_trades: f"insight {insight_id}"
CallerReason(iid) == <<"insight", iid, 0>>

WithField(rec, name, val) ==
    [f \in DOMAIN rec \cup {name} |-> IF f = name THEN val ELSE rec[f]]

\* the trade row carries f"Alpaca: {reason[:390]}", a sequence of its
\* parts here (each part a triple); order.id goes to the entry of the
\* executed list
AlpacaRecord(r, oid, reason) ==
    [r EXCEPT
        !.trades = [k \in DOMAIN r.trades |->
            IF k = Len(r.trades)
            THEN WithField(r.trades[k], "reason", <<<<"Alpaca", 0, 0>>, reason>>)
            ELSE r.trades[k]],
        !.executed = [k \in DOMAIN r.executed |->
            IF k = Len(r.executed)
            THEN WithField(r.executed[k], "order_id", oid)
            ELSE r.executed[k]]]

\* one iteration of a loop of execute_alpaca_trades: the guard rails of the
\* paper executor, then client.submit_order; the local state is updated
\* only after the order was accepted
AlpacaSlice(side, st, d, pr, iid, ts, accepted) ==
    LET r == Slice(side, st, d, pr, iid, ts) IN
    IF Len(r.executed) = Len(st.executed) THEN r
    ELSE IF accepted THEN AlpacaRecord(r, OrderId(iid, Len(r.executed)), CallerReason(iid))
    ELSE OrderFailed(st, side, d.ticker)

\* does this iteration reach client.submit_order ?
SubmitsOrder(side, st, d, pr) ==
    Len(Slice(side, st, d, pr, 0, 0).executed) > Len(st.executed)

\* execute_alpaca_trades lines 206-233: client, the two syncs, the limits
AlpacaBegin(ds, acct, acct_ok, pos_ok) ==
    /\ ex.phase \in {"idle", "done"}
    /\ db_lock = "free"
    /\ mkt = IdleMkt
    /\ cycles < MaxCycles
    /\ cycles' = cycles + 1
    /\ LET c == IF acct_ok THEN acct.cash ELSE cash
           pos == IF pos_ok THEN SyncPositions(positions, acct.positions, cycles + 1)
                  ELSE positions IN
       /\ cash' = c
       /\ positions' = pos
       /\ ex' = [phase |-> "broker", pass |-> 1, i |-> 1, ds |-> ds, pr |-> prices,
                 iid |-> cycles + 1, order |-> "none",
                 st |-> BeginCycle(c, pos, trades, prices),
                 start |-> BeginCycle(c, pos, trades, prices)]
    /\ UNCHANGED <<budgetVars, marketVars, loopVars, fnVars, prices, trades,
                   thinkVars>>

AlpacaStep ==
    /\ ex.phase = "broker"
    /\ ex.pass <= Len(PassOrder)
    /\ IF ex.i <= Len(ex.ds) /\ ~(PassOrder[ex.pass] = "BUY" /\ ex.st.brk)
       THEN \E accepted \in BOOLEAN :
              ex' = [ex EXCEPT
                 !.st = AlpacaSlice(PassOrder[ex.pass], ex.st, ex.ds[ex.i],
                                    ex.pr, ex.iid, ex.iid, accepted),
                 !.order = IF ~SubmitsOrder(PassOrder[ex.pass], ex.st,
                                            ex.ds[ex.i], ex.pr) THEN "none"
                           ELSE IF accepted THEN "accepted" ELSE "refused",
                 !.i = @ + 1]
       ELSE ex' = [ex EXCEPT !.pass = @ + 1, !.i = 1, !.order = "none"]
    /\ UNCHANGED <<budgetVars, marketVars, loopVars, fnVars, storeVars, cycles,
                   thinkVars>>

\* set_cash(conn, cash); conn.commit()
AlpacaEnd ==
    /\ ex.phase = "broker"
    /\ ex.pass > Len(PassOrder)
    /\ cash' = ex.st.cash
    /\ positions' = ex.st.positions
    /\ trades' = ex.st.trades
    /\ ex' = [ex EXCEPT !.phase = "done"]
    /\ UNCHANGED <<budgetVars, marketVars, loopVars, fnVars, prices, cycles,
                   thinkVars>>

StoreStart ==
    /\ prices = [s \in Symbols |-> 10]
    /\ snap_id = 1
    /\ cash = START_CASH
    /\ positions = << >>
    /\ trades = << >>

ExecStart ==
    /\ ex = IdleEx
    /\ cycles = 0

(***************************************************************************)
(* Think worker: critic, sanitizer, rule based fallback, committee         *)
(***************************************************************************)
STAR_THRESHOLD == 7200          \* 0.72, in 1/10000
EXPLANATION_MIN_LENGTH == 180
FALLBACK_CONF == 42             \* conf = 0.42, in hundredths
TOP_N == 5                      \* ranked[:5]
BOTTOM_N == 4                   \* ranked[-4:]
RISK_OFF_LEVEL == 62            \* risk_off > 0.62, in hundredths

\* clamp01 on a scale where 1.0 is `one`
Clamp01(x, one) == Max(0, Min(one, x))

\* an explanation is kept as its length and whether it holds one of the
\* reasoning keywords
Explanation(n, kw) == [len |-> n, keyword |-> kw]

CountActive(ds, side) ==
    Cardinality({i \in 1..Len(ds) : ds[i].action = side /\ ds[i].allocation_pct > 0})

CriticScoreShort(explanation, ds, conf) ==
    LET base == 2200 + 48 * Clamp01(conf, 100)
        s1 == base + (IF explanation.len < EXPLANATION_MIN_LENGTH THEN 1000 ELSE 0)
        s2 == s1 + (IF explanation.keyword THEN 1000 ELSE 0)
        s3 == s2 - (IF CountActive(ds, "BUY") >= 10 THEN 600 ELSE 0)
        s4 == s3 - (IF CountActive(ds, "SELL") >= 10 THEN 400 ELSE 0)
    IN Clamp01(s4, 10000)
\* critic_score, in 1/10000; conf in hundredths
CriticScore(explanation, ds, conf) ==
    LET base == 2200 + 48 * Clamp01(conf, 100)
        s1 == base + (IF explanation.len >= EXPLANATION_MIN_LENGTH THEN 1000 ELSE 0)
        s2 == s1 + (IF explanation.keyword THEN 1000 ELSE 0)
        s3 == s2 - (IF CountActive(ds, "BUY") >= 10 THEN 600 ELSE 0)
        s4 == s3 - (IF CountActive(ds, "SELL") >= 10 THEN 400 ELSE 0)
    IN Clamp01(s4, 10000)

\* str(x).upper().strip() on the strings the model uses
UpperStrip(x) ==
    CASE x = "bbb" -> "BBB"
      [] x = " xlv" -> "XLV"
      [] x = "sell" -> "SELL"
      [] OTHER -> x

\* sanitize_decisions: raw is a list of items, or something that is no list
RECURSIVE SanitizeItems(_)
SanitizeItems(raw) ==
    IF raw = << >> THEN << >>
    ELSE LET item == Head(raw)
             t == UpperStrip(item.ticker)
             a == UpperStrip(item.action)
             rest == SanitizeItems(Tail(raw)) IN
         IF t \notin Symbols THEN rest
         ELSE <<Dec(t,
                    IF a \in {"BUY", "SELL", "HOLD"} THEN a ELSE "HOLD",
                    Max(0, Min(80, item.allocation_pct)))>> \o rest

RECURSIVE HoldDefaults(_, _)
HoldDefaults(present, i) ==
    IF i > Len(Investibles) THEN << >>
    ELSE (IF Investibles[i] \in present THEN << >>
          ELSE <<Dec(Investibles[i], "HOLD", 0)>>) \o HoldDefaults(present, i + 1)

SanitizeDecisions(raw) ==
    IF ~raw.is_list THEN << >>
    ELSE LET out == SanitizeItems(raw.items)
             present == {out[i].ticker : i \in 1..Len(out)} IN
         out \o HoldDefaults(present, 1)

\* position of a ticker in the string order of the tickers
TickerRank(t) == CHOOSE i \in 1..Len(Investibles) : Investibles[i] = t

\* rule_based_fallback: scores s = mom20 - 2*volatility (less the overbought
\* penalty) per ticker, risk_off in hundredths
RuleBasedFallback(score, risk_off) ==
    LET ranked == SortSeq(Investibles,
                     LAMBDA a, b : \/ score[a] > score[b]
                                   \/ score[a] = score[b] /\ TickerRank(a) > TickerRank(b))
        n == Len(ranked)
        top == {ranked[i] : i \in 1..Min(TOP_N, n)}
        bottom == {ranked[i] : i \in (Max(0, n - BOTTOM_N) + 1)..n}
        one(t) ==
            IF risk_off > RISK_OFF_LEVEL
            THEN IF t \in bottom THEN Dec(t, "SELL", 15)
                 ELSE IF t = "XLV" THEN Dec(t, "BUY", 6)
                 ELSE Dec(t, "HOLD", 0)
            ELSE IF t \in top THEN Dec(t, "BUY", 7)
                 ELSE IF t \in bottom THEN Dec(t, "SELL", 12)
                 ELSE Dec(t, "HOLD", 0)
    IN [decisions |-> [i \in 1..Len(Investibles) |-> one(Investibles[i])],
        explanation |-> Explanation(
            (IF risk_off > RISK_OFF_LEVEL THEN 164 ELSE 163), TRUE),
        conf |-> FALLBACK_CONF]

\* what llm_chat_json hands to the committee: no parsed object, or a parsed
\* object with its "decisions", "explanation" and "confidence"
RawItem(t, a, pct) == [ticker |-> t, action |-> a, allocation_pct |-> pct]

RawList(items) == [is_list |-> TRUE, items |-> items]

NoReply ==
    [parsed |-> FALSE, decisions |-> [is_list |-> FALSE, items |-> << >>],
     explanation |-> Explanation(0, FALSE), confidence |-> 0]

CommitteeReplies == {
    NoReply,
    [parsed |-> TRUE,
     decisions |-> RawList(<<RawItem("AAA", "BUY", 80)>>),
     explanation |-> Explanation(400, TRUE), confidence |-> 90],
    [parsed |-> TRUE,
     decisions |-> RawList(<<RawItem("ZZZ", "BUY", 10), RawItem("AAA", "SELL", 150),
                             RawItem("XLV", "YOLO", 5)>>),
     explanation |-> Explanation(0, FALSE), confidence |-> 0] }

\* _generate_explanation_from_agents: padded to the minimum length, and it
\* holds keywords
GeneratedExplanation == Explanation(EXPLANATION_MIN_LENGTH, TRUE)

\* ThinkWorker._llm_committee: decisions, explanation and conf (the agents
\* object is left out)
LlmCommittee(prompt_ok, reply, score, risk_off) ==
    IF ~prompt_ok THEN RuleBasedFallback(score, risk_off)
    ELSE IF ~reply.parsed
    THEN [decisions |-> << >>, explanation |-> Explanation(31, FALSE), conf |-> 0]
    ELSE LET ds == SanitizeDecisions(reply.decisions) IN
         IF ds = << >>
         THEN [decisions |-> << >>, explanation |-> Explanation(37, FALSE), conf |-> 0]
         ELSE [decisions |-> ds,
               explanation |-> IF reply.explanation.len = 0
                               THEN GeneratedExplanation
                               ELSE reply.explanation,
               \* clamp01(float(parsed.get("confidence", 0.5) or 0.5))
               conf |-> Clamp01(IF reply.confidence = 0 THEN 50
                                ELSE reply.confidence, 100)]

(***************************************************************************)
(* ThinkWorker.step_once and insight_approve                               *)
(***************************************************************************)
MaxInsights == 2        \* Think steps per behaviour

Clients == {"c1", "c2"}         \* concurrent approve requests
ScoreMaps == { [s \in Symbols |-> 0],
               [s \in Symbols |-> IF s = "BBB" THEN 3 ELSE 0 - 2] }
RiskOffs == {50, 70}

IdleThink == [pc |-> "idle"]
IdleApprove == [pc |-> "idle", id |-> 0, status_read |-> NIL]

\* faulty variant: the block is entered without taking DB_LOCK
CanEnterAlways(lock) == TRUE

\* with DB_LOCK: a thread enters when the lock is free
CanEnter(lock) == lock = "free"

\* can_trade_now = TRADE_ANYTIME or (not market_is_open_et())
CanTradeNow == cfg.trade_anytime \/ ~market_open

\* step_once, first block: read the latest snapshot and the portfolio under
\* the lock, then take the trading window
ThinkRead ==
    /\ think.pc = "idle"
    /\ CanEnter(db_lock)
    /\ Len(insights) < MaxInsights
    /\ snap_id > 0
    /\ \E score \in ScoreMaps, ro \in RiskOffs :
          think' = [pc |-> "llm", prices |-> prices, snap_id |-> snap_id,
                    score |-> score, risk_off |-> ro,
                    can_trade_now |-> CanTradeNow]
    /\ UNCHANGED <<budgetVars, marketVars, loopVars, fnVars, storeVars, execVars, snap_id, insights, approve,
                   db_lock, market_open, cfg>>

\* the committee call returns; critic_score and starred
ThinkCommittee(prompt_ok, reply) ==
    /\ think.pc = "llm"
    /\ LET plan == LlmCommittee(prompt_ok, reply, think.score, think.risk_off)
           crit == CriticScore(plan.explanation, plan.decisions, plan.conf) IN
       think' = [pc |-> "write", prices |-> think.prices,
                 snap_id |-> think.snap_id,
                 can_trade_now |-> think.can_trade_now,
                 llm_failed |-> prompt_ok /\ (~reply.parsed
                                 \/ SanitizeDecisions(reply.decisions) = << >>),
                 decisions |-> plan.decisions, conf |-> plan.conf,
                 crit |-> crit, starred |-> (crit >= STAR_THRESHOLD)]
    /\ UNCHANGED <<budgetVars, marketVars, loopVars, fnVars, storeVars, execVars, snap_id, insights, approve,
                   db_lock, market_open, cfg>>

\* second block: INSERT INTO insights ... status 'new', conn.commit()
ThinkInsert ==
    /\ think.pc = "write"
    /\ CanEnter(db_lock)
    /\ db_lock' = "think"
    /\ insights' = Append(insights,
          [status |-> "new", starred |-> think.starred,
           decisions |-> think.decisions, conf |-> think.conf,
           crit |-> think.crit, evidence_snapshot_id |-> think.snap_id,
           evidence_prices |-> think.prices,
           eligible |-> cfg.auto_trade /\ think.starred /\ think.can_trade_now,
           runs |-> 0])
    /\ think' = [think EXCEPT !.pc = "inserted"]
    /\ UNCHANGED <<budgetVars, marketVars, loopVars, fnVars, storeVars, execVars, snap_id, approve,
                   market_open, cfg>>

SetStatus(ins, id, st) == [ins EXCEPT ![id].status = st]

\* execute_trades: the alpaca route imports src.portfolio.alpaca_trading,
\* a module the package does not have, and raises
ExecuteTradesRaises == cfg.broker = "alpaca"

\* the rest of the second block: autotrade, or queue, or leave the row as it is
ThinkFinish ==
    /\ think.pc = "inserted"
    /\ LET id == Len(insights) IN
       IF cfg.auto_trade /\ think.starred /\ think.can_trade_now
       THEN IF ExecuteTradesRaises
            THEN \* except Exception: conn.rollback(); raise
                 UNCHANGED <<storeVars, insights>>
            ELSE LET res == ExecutePaperTrades(cash, positions, trades,
                                think.decisions, think.prices, id, id) IN
                 /\ cash' = res.cash
                 /\ positions' = res.positions
                 /\ trades' = res.trades
                 /\ prices' = prices
                 /\ insights' = [insights EXCEPT ![id].status = "applied",
                                                 ![id].runs = @ + 1]
       ELSE IF cfg.auto_trade /\ think.starred /\ ~think.can_trade_now
       THEN /\ insights' = SetStatus(insights, id, "queued")
            /\ UNCHANGED storeVars
       ELSE UNCHANGED <<storeVars, insights>>
    /\ db_lock' = "free"
    /\ think' = IdleThink
    /\ UNCHANGED <<budgetVars, marketVars, loopVars, fnVars, execVars, snap_id, approve, market_open, cfg>>

\* insight_approve, up to the row read: enter the lock, look the insight up
ApproveBegin(c, id) ==
    /\ approve[c].pc = "idle"
    /\ CanEnter(db_lock)
    /\ IF id > Len(insights)
       THEN \* insight not found, 404
            UNCHANGED <<approve, db_lock>>
       ELSE /\ approve' = [approve EXCEPT ![c] =
                    [pc |-> "locked", id |-> id,
                     status_read |-> insights[id].status]]
            /\ db_lock' = c
    /\ UNCHANGED <<budgetVars, marketVars, loopVars, fnVars, storeVars, execVars, snap_id, insights, think,
                   market_open, cfg>>

\* insight_approve, the rest: already applied, or queued while the market is
\* open, or executed with the evidence snapshot's prices and set to applied
ApproveFinish(c) ==
    /\ approve[c].pc = "locked"
    /\ LET id == approve[c].id
           ins == insights[id] IN
       IF approve[c].status_read = "applied"
       THEN /\ approve' = [approve EXCEPT ![c] = IdleApprove]
            /\ UNCHANGED <<storeVars, insights>>
       ELSE IF ~CanTradeNow
       THEN /\ insights' = SetStatus(insights, id, "queued")
            /\ approve' = [approve EXCEPT ![c] = IdleApprove]
            /\ UNCHANGED storeVars
       ELSE LET res == ExecutePaperTrades(cash, positions, trades,
                           ins.decisions, ins.evidence_prices, id, id) IN
            /\ cash' = res.cash
            /\ positions' = res.positions
            /\ trades' = res.trades
            /\ prices' = prices
            /\ insights' = [insights EXCEPT ![id].status = "applied",
                                            ![id].runs = @ + 1]
            /\ approve' = [approve EXCEPT ![c] = IdleApprove]
    /\ db_lock' = "free"
    /\ UNCHANGED <<budgetVars, marketVars, loopVars, fnVars, execVars, snap_id, think, market_open, cfg>>

\* the exchange opens or closes: market_is_open_et() changes its answer
MarketClock ==
    /\ market_open' = ~market_open
    /\ UNCHANGED <<budgetVars, marketVars, loopVars, fnVars, storeVars, execVars, snap_id, insights, think,
                   approve, db_lock, cfg>>

(***************************************************************************)
(* Worker loops: start, stop_now, _loop and jitter_sleep                   *)
(***************************************************************************)
MaxTicks == 1           \* the step counters of the stats saturate here

Workers == {"market", "dream", "think"}

\* pc is the position of the loop thread: "dead" when there is no live
\* thread, "test" at the while condition of _loop, "enter" between a
\* condition found true and the call of step_once, "step" inside step_once,
\* "sleep" at the while condition of jitter_sleep, "slice" inside time.sleep
IdleWorker == [running |-> FALSE, stop |-> FALSE, pc |-> "dead",
               ticks |-> 0, last_ok |-> NIL, last_error |-> NIL]

\* faulty variant: start() does not look at the thread
ThreadAliveNever(wk) == FALSE

\* self.thread and self.thread.is_alive()
ThreadAlive(wk) == wk.pc # "dead"

Start(w) ==
    /\ IF ThreadAlive(workers[w])
       THEN /\ workers' = workers
            /\ ctl' = [ctl EXCEPT ![w] = "start_returned"]
       ELSE /\ workers' = [workers EXCEPT ![w].running = TRUE,
                                          ![w].stop = FALSE,
                                          ![w].pc = "test"]
            /\ ctl' = [ctl EXCEPT ![w] = "start"]
    /\ UNCHANGED <<budgetVars, storeVars, execVars, thinkVars, fnVars, marketVars>>

StopNow(w) ==
    /\ workers' = [workers EXCEPT ![w].running = FALSE, ![w].stop = TRUE]
    /\ ctl' = [ctl EXCEPT ![w] = "stop_now"]
    /\ UNCHANGED <<budgetVars, storeVars, execVars, thinkVars, fnVars, marketVars>>

\* while self.running and not self.stop.is_set()
LoopTest(w) ==
    /\ workers[w].pc = "test"
    /\ workers' = [workers EXCEPT ![w].pc =
           IF workers[w].running /\ ~workers[w].stop THEN "enter" ELSE "dead"]
    /\ UNCHANGED <<budgetVars, storeVars, execVars, thinkVars, fnVars, marketVars, ctl>>

\* try: self.step_once()
LoopEnter(w) ==
    /\ workers[w].pc = "enter"
    /\ workers' = [workers EXCEPT ![w].pc = "step"]
    /\ UNCHANGED <<budgetVars, storeVars, execVars, thinkVars, fnVars, marketVars, ctl>>

\* the stats written after a step_once that returned
AfterStep(w, wk) ==
    IF w = "market"
    THEN [wk EXCEPT !.ticks = Min(@ + 1, MaxTicks), !.last_ok = "True",
                    !.last_error = NIL]
    ELSE [wk EXCEPT !.ticks = Min(@ + 1, MaxTicks)]

\* except Exception as e: only MarketWorker writes stats["last_error"]
Except(w, wk) ==
    IF w = "market"
    THEN [wk EXCEPT !.last_ok = "False", !.last_error = "error"]
    ELSE wk

StepReturns(w) ==
    /\ workers[w].pc = "step"
    /\ workers' = [workers EXCEPT ![w] = [AfterStep(w, @) EXCEPT !.pc = "sleep"]]
    /\ UNCHANGED <<budgetVars, storeVars, execVars, thinkVars, fnVars, marketVars, ctl>>

StepRaises(w) ==
    /\ workers[w].pc = "step"
    /\ workers' = [workers EXCEPT ![w] = [Except(w, @) EXCEPT !.pc = "sleep"]]
    /\ UNCHANGED <<budgetVars, storeVars, execVars, thinkVars, fnVars, marketVars, ctl>>

\* faulty variant: jitter_sleep does not look at the stop event
SleepOverStopped(wk, more) == more

\* while elapsed < total and not stop.is_set()
SleepOver(wk, more) == more /\ ~wk.stop

\* jitter_sleep: the condition and the start of time.sleep(min(step, ...));
\* more says whether elapsed < total
SleepTest(w) ==
    /\ workers[w].pc = "sleep"
    /\ \E more \in BOOLEAN :
          workers' = [workers EXCEPT ![w].pc =
              IF SleepOver(workers[w], more) THEN "slice" ELSE "test"]
    /\ UNCHANGED <<budgetVars, storeVars, execVars, thinkVars, fnVars, marketVars, ctl>>

SliceEnds(w) ==
    /\ workers[w].pc = "slice"
    /\ workers' = [workers EXCEPT ![w].pc = "sleep"]
    /\ UNCHANGED <<budgetVars, storeVars, execVars, thinkVars, fnVars, marketVars, ctl>>

\* the steps of the loop thread of worker w
LoopStep(w) ==
    \/ LoopTest(w)
    \/ LoopEnter(w)
    \/ StepReturns(w)
    \/ StepRaises(w)
    \/ SleepTest(w)
    \/ SliceEnds(w)

LoopStart ==
    /\ workers = [w \in Workers |-> IdleWorker]
    /\ ctl = [w \in Workers |-> NIL]

(***************************************************************************)
(* sanitize_decisions on the lists a committee reply can hold              *)
(***************************************************************************)
MaxRawLen == 2

RawTickers == {"AAA", "bbb", " xlv", "BBB", "ZZZ"}
RawActions == {"BUY", "sell", "YOLO"}
RawPcts == {0 - 5, 10, 150}

RawItems == {RawItem(t, a, pct) : t \in RawTickers, a \in RawActions, pct \in RawPcts}

RECURSIVE RawSeqs(_)
RawSeqs(n) ==
    IF n = 0 THEN {<< >>}
    ELSE LET shorter == RawSeqs(n - 1) IN
         shorter \cup {Append(q, x) : q \in {r \in shorter : Len(r) = n - 1},
                                     x \in RawItems}

NoCall == [raw |-> [is_list |-> FALSE, items |-> << >>], done |-> FALSE,
           out |-> << >>]

\* decisions = sanitize_decisions(parsed.get("decisions", []))
Sanitize ==
    /\ ~san.done
    /\ san' = [san EXCEPT !.done = TRUE, !.out = SanitizeDecisions(san.raw)]
    /\ UNCHANGED <<budgetVars, storeVars, execVars, thinkVars, marketVars,
                   loopVars, kg, critic, fetch, utilVars>>


(***************************************************************************)
(* Knowledge graph: nodes, edges, edge_channels                            *)
(*                                                                         *)
(* Strengths and CHANNEL_WEIGHTS are in hundredths, so an edge weight is   *)
(* in 1/10000.  Timestamps are ticks of the graph clock; HOUR ticks are    *)
(* one hour.  Every operation below runs inside one db_conn() block: it is *)
(* committed as a whole or rolled back as a whole.                         *)
(***************************************************************************)
NULL == 0 - 1
MaxKgSteps == 2
MaxKgClock == 2
HOUR == 1

BELLWETHERS == {"SPY", "UUP"}
BELLWETHERS_YF == {"^VIX"}
DERIVED == {"SIG_RISK_OFF", "REG_RISK_OFF"}

\* Python compares str by code point: 'A' < 'R' < 'S' < 'U' < 'X' < '^' < '_'
IdOrder == <<"AAA", "AAA_C10_0321", "AAA_P10_0321", "BBB", "REG_RISK_OFF",
             "SIG_RISK_OFF", "SPY", "UUP", "XLV", "^VIX">>
IdRank(id) == CHOOSE k \in 1..Len(IdOrder) : IdOrder[k] = id
StrLeq(a, b) == IdRank(a) <= IdRank(b)

\* a channel name "base" or "base:A->B"
Ch(base, dir) == [base |-> base, dir |-> dir]
\* base = ch.split(":", 1)[0]
Base(ch) == ch.base

CHANNEL_WEIGHTS ==
    [b \in {"correlates", "inverse_correlates", "drives", "liquidity_coupled"} |->
        CASE b = "correlates" -> 100
          [] b = "inverse_correlates" -> 100
          [] b = "drives" -> 90
          [] b = "liquidity_coupled" -> 70]

\* w = CHANNEL_WEIGHTS.get(base, 0.5)
W(base) == IF base \in DOMAIN CHANNEL_WEIGHTS THEN CHANNEL_WEIGHTS[base] ELSE 50

RECURSIVE SumChannels(_, _)
SumChannels(chs, S) ==
    IF S = {} THEN 0
    ELSE LET ch == CHOOSE x \in S : TRUE IN
         W(Base(ch)) * chs[ch] + SumChannels(chs, S \ {ch})

\* chs is a dict channel -> strength
edge_weight_top(chs) ==
    LET best == {ch \in DOMAIN chs :
                    chs[ch] > 0 /\ \A o \in DOMAIN chs : chs[o] <= chs[ch]} IN
    [weight |-> SumChannels(chs, DOMAIN chs),
     top |-> IF best = {} THEN NIL ELSE CHOOSE ch \in best : TRUE]

NoChannels == [ch \in {} |-> 0]
OneChannel(ch, s) == [c \in {ch} |-> s]

BOOT_EDGES == <<
    [a |-> "^VIX", b |-> "SIG_RISK_OFF",
     chs |-> OneChannel(Ch("drives", "^VIX->SIG_RISK_OFF"), 80)],
    [a |-> "UUP", b |-> "SIG_RISK_OFF",
     chs |-> OneChannel(Ch("drives", "UUP->SIG_RISK_OFF"), 55)],
    [a |-> "SPY", b |-> "SIG_RISK_OFF",
     chs |-> OneChannel(Ch("inverse_correlates", ""), 55)],
    [a |-> "SIG_RISK_OFF", b |-> "REG_RISK_OFF",
     chs |-> OneChannel(Ch("drives", "SIG_RISK_OFF->REG_RISK_OFF"), 70)] >>

EmptyKg == [nodes |-> << >>, edges |-> << >>, channels |-> {}, clock |-> 0,
            steps |-> 0, last |-> [op |-> "none"]]

NodeRow(kind) == [kind |-> kind, degree |-> 0, touched |-> 0]

\* INSERT OR IGNORE INTO nodes
InsertNodesIgnore(nodes, ids, kind) ==
    [n \in DOMAIN nodes \cup ids |->
        IF n \in DOMAIN nodes THEN nodes[n] ELSE NodeRow(kind)]

\* INSERT OR REPLACE INTO nodes: the old row goes, the new one has the
\* column defaults
InsertNodeReplace(nodes, id, kind) ==
    [n \in DOMAIN nodes \cup {id} |->
        IF n = id THEN NodeRow(kind) ELSE nodes[n]]

norm_pair_given(a, b) == <<a, b>>
norm_pair(a, b) == IF StrLeq(a, b) THEN <<a, b>> ELSE <<b, a>>

EdgeIds(edges, a, b) ==
    {k \in 1..Len(edges) : edges[k].node_a = a /\ edges[k].node_b = b}

\* INSERT OR IGNORE INTO edges (UNIQUE(node_a, node_b)), then SELECT edge_id
ensure_edge_id(edges, a, b) ==
    LET p == norm_pair(a, b)
        have == EdgeIds(edges, p[1], p[2]) IN
    IF have # {} THEN [edges |-> edges, eid |-> CHOOSE k \in have : TRUE]
    ELSE [edges |-> Append(edges, [node_a |-> p[1], node_b |-> p[2],
                                   weight |-> 0, top_channel |-> NIL,
                                   last_assessed |-> NULL,
                                   assessment_count |-> 0]),
          eid |-> Len(edges) + 1]

\* DELETE FROM edge_channels WHERE edge_id=?
DeleteChannelsNone(channels, eid) == channels
DeleteChannels(channels, eid) == {r \in channels : r.edge_id # eid}

\* INSERT OR REPLACE INTO edge_channels, once per item of the dict
InsertChannels(channels, eid, chs) ==
    {r \in channels : ~(r.edge_id = eid /\ r.channel \in DOMAIN chs)}
    \cup {[edge_id |-> eid, channel |-> ch, strength |-> chs[ch]] : ch \in DOMAIN chs}

\* the rewrite of one edge's channels and of its weight
RewriteChannels(g, eid, chs) ==
    LET wt == edge_weight_top(chs) IN
    [g EXCEPT !.channels = InsertChannels(DeleteChannels(@, eid), eid, chs),
              !.edges[eid].weight = wt.weight,
              !.edges[eid].top_channel = wt.top]

\* SELECT COUNT(*) FROM edges WHERE node_a = node_id OR node_b = node_id
Incident(edges, n) ==
    Cardinality({k \in 1..Len(edges) : edges[k].node_a = n \/ edges[k].node_b = n})

\* UPDATE nodes SET degree = (...) WHERE node_id IN ids
UpdateDegreesFirst(g, ids) ==
    LET one == {CHOOSE n \in ids : \A m \in ids : StrLeq(n, m)} IN
    [g EXCEPT !.nodes = [n \in DOMAIN g.nodes |->
        IF n \in one THEN [g.nodes[n] EXCEPT !.degree = Incident(g.edges, n)]
        ELSE g.nodes[n]]]
UpdateDegrees(g, ids) ==
    [g EXCEPT !.nodes = [n \in DOMAIN g.nodes |->
        IF n \in ids THEN [g.nodes[n] EXCEPT !.degree = Incident(g.edges, n)]
        ELSE g.nodes[n]]]

\* UPDATE nodes SET last_touched=?, score=score+0.005 WHERE node_id IN ids
\* (touched: whether the row was ever touched)
TouchNodes(g, ids) ==
    [g EXCEPT !.nodes = [n \in DOMAIN g.nodes |->
        IF n \in ids THEN [g.nodes[n] EXCEPT !.touched = 1]
        ELSE g.nodes[n]]]

\* UPDATE edges SET last_assessed=?, assessment_count=assessment_count+1
MarkAssessed(g, eid, ts) ==
    [g EXCEPT !.edges[eid].last_assessed = ts,
              !.edges[eid].assessment_count = @ + 1]

RECURSIVE BootEdges(_, _)
BootEdges(g, k) ==
    IF k > Len(BOOT_EDGES) THEN g
    ELSE LET be == BOOT_EDGES[k]
             r == ensure_edge_id(g.edges, be.a, be.b)
             g1 == [g EXCEPT !.edges = r.edges] IN
         BootEdges(RewriteChannels(g1, r.eid, be.chs), k + 1)

\* the update of one edge by a Dream assessment
AssessEdge(g, a, b, chs) ==
    LET r == ensure_edge_id(g.edges, a, b)
        g1 == RewriteChannels([g EXCEPT !.edges = r.edges], r.eid, chs)
        g2 == MarkAssessed(g1, r.eid, g.clock) IN
    UpdateDegrees(TouchNodes(g2, {a, b}), {a, b})

\* channels from the correlation c (hundredths), dream_worker.py
HeuristicChannels(bw, c) ==
    LET mag == IF c < 0 THEN 0 - c ELSE c
        s == Min(100, 35 + (75 * mag) \div 100)
        l == Min(100, 25 + (80 * mag) \div 100)
        main == IF mag >= 25
                THEN OneChannel(Ch(IF c > 0 THEN "correlates" ELSE "inverse_correlates", ""), s)
                ELSE NoChannels
        liq == IF bw \in {"SPY", "QQQ"} /\ mag >= 15
               THEN OneChannel(Ch("liquidity_coupled", ""), l)
               ELSE NoChannels IN
    [ch \in DOMAIN main \cup DOMAIN liq |->
        IF ch \in DOMAIN main THEN main[ch] ELSE liq[ch]]

\* the channels of an LLM reply: entries outside [0.10, 1.0] are dropped,
\* and an empty rest leaves the heuristic channels
CleanChannels(reply, heuristic) ==
    LET keep == {ch \in DOMAIN reply : 10 <= reply[ch] /\ reply[ch] <= 100}
        clean == [ch \in keep |-> reply[ch]] IN
    IF keep # {} THEN clean ELSE heuristic

Correlations == {0, 0 - 60}
NoLlm == NoChannels
DreamReplies == {
    NoLlm,
    [ch \in {Ch("leads", ""), Ch("hedges", "")} |->
        IF ch.base = "leads" THEN 70 ELSE 5] }

OptionContracts == {
    [underlying |-> "AAA", option_type |-> "Call", node_id |-> "AAA_C10_0321"],
    [underlying |-> "AAA", option_type |-> "Put", node_id |-> "AAA_P10_0321"] }
Deltas == {30, 0 - 90}
OptionKinds == {"option_call", "option_put"}
OptionNodes(g) == {n \in DOMAIN g.nodes : g.nodes[n].kind \in OptionKinds}

\* steps counts the assessments written, last is the latest operation
Stepped(g, op) == [g EXCEPT !.steps = @ + 1, !.last = op]
Noted(g, op) == [g EXCEPT !.last = op]

\* bootstrap_if_empty() on an empty nodes table
bootstrap(g) ==
    LET n1 == InsertNodesIgnore(g.nodes, Symbols, "investible")
        n2 == InsertNodesIgnore(n1, BELLWETHERS, "bellwether")
        n3 == InsertNodesIgnore(n2, DERIVED, "derived")
        g1 == BootEdges([g EXCEPT !.nodes = n3], 1) IN
    UpdateDegrees(g1, DOMAIN g1.nodes)

\* main.py calls bootstrap_if_empty() before any worker starts
BootstrapIfEmpty ==
    /\ DOMAIN kg.nodes = {}
    /\ kg' = Noted(bootstrap(kg), [op |-> "bootstrap"])
    /\ UNCHANGED <<budgetVars, storeVars, execVars, thinkVars, marketVars,
                   loopVars, san, critic, fetch, utilVars>>

\* DreamWorker._assess_pair with inv, bw the random choices, c the
\* correlation and reply the channels of the LLM reply (NoLlm: not asked,
\* or no usable reply)
AssessPair(inv, bw, c, reply) ==
    /\ DOMAIN kg.nodes # {}
    /\ kg.steps < MaxKgSteps
    /\ snapshots # {}
    /\ LET chs == CleanChannels(reply, HeuristicChannels(bw, c)) IN
       kg' = Stepped(AssessEdge(kg, inv, bw, chs),
                     [op |-> "assess_pair"])
    /\ UNCHANGED <<budgetVars, storeVars, execVars, thinkVars, marketVars,
                   loopVars, san, critic, fetch, utilVars>>

\* the heuristic channels of an (option, bellwether) pair
OptionBwChannels(bw, kind, c) ==
    LET mag == IF c < 0 THEN 0 - c ELSE c
        vol(s) == OneChannel(Ch("vol_regime_coupled", ""), s)
        with(f, ch, s) == [x \in DOMAIN f \cup {ch} |-> IF x = ch THEN s ELSE f[x]] IN
    IF bw = "^VIX" THEN
        IF kind = "option_put" /\ c > 20
        THEN with(vol(Min(80, 45 + mag)), Ch("options_hedges", ""), Min(85, 50 + mag))
        ELSE IF kind = "option_call" /\ c < 0 - 15
        THEN OneChannel(Ch("inverse_correlates", ""), Min(75, 40 + mag))
        ELSE NoChannels
    ELSE IF bw \in {"SPY", "QQQ"} /\ mag > 25 THEN
        IF c > 0
        THEN with(vol(60), Ch("correlates", ""), Min(80, 35 + mag))
        ELSE with(vol(60), Ch("inverse_correlates", ""), Min(75, 30 + mag))
    ELSE NoChannels

\* DreamWorker._assess_option_bellwether_pair
AssessOptionBellwetherPair(opt, bw, c, reply) ==
    /\ kg.steps < MaxKgSteps
    /\ opt \in OptionNodes(kg)
    /\ snapshots # {}
    /\ LET heuristic == OptionBwChannels(bw, kg.nodes[opt].kind, c) IN
       /\ heuristic # NoChannels
       /\ kg' = Stepped(AssessEdge(kg, opt, bw, CleanChannels(reply, heuristic)),
                        [op |-> "assess_option_bw"])
    /\ UNCHANGED <<budgetVars, storeVars, execVars, thinkVars, marketVars,
                   loopVars, san, critic, fetch, utilVars>>

OptionOptionChannels == {
    NoChannels,
    [ch \in {Ch("iv_correlates", ""), Ch("vol_regime_coupled", "")} |->
        IF ch.base = "iv_correlates" THEN 70 ELSE 55] }

\* "Skip if assessed in last hour": the test the code makes on the edge
\* of the pair
SkipsWithinHour(e, ts) == e.last_assessed # NULL /\ ts - e.last_assessed <= HOUR
Skips(e, ts) == e.last_assessed # NULL

\* DreamWorker._assess_option_option_pair: node_a, node_b are the node ids
\* of the two rows drawn, chs the channels the histories and greeks give
AssessOptionOptionPair(node_a, node_b, chs, reply) ==
    /\ kg.steps < MaxKgSteps
    /\ {node_a, node_b} \subseteq OptionNodes(kg)
    /\ LET existing == EdgeIds(kg.edges, node_a, node_b) \cup EdgeIds(kg.edges, node_b, node_a)
           op(res) == [op |-> "assess_option_option", a |-> node_a, b |-> node_b,
                       result |-> res] IN
       IF existing # {} /\ Skips(kg.edges[CHOOSE k \in existing : TRUE], kg.clock)
       THEN kg' = Noted(kg, op("skipped"))
       ELSE IF chs = NoChannels
       THEN kg' = Noted(kg, op("no relationship"))
       ELSE kg' = Stepped(AssessEdge(kg, node_a, node_b, CleanChannels(reply, chs)),
                          op("assessed"))
    /\ UNCHANGED <<budgetVars, storeVars, execVars, thinkVars, marketVars,
                   loopVars, san, critic, fetch, utilVars>>

\* OptionsWorker._create_option_graph_node
create_option_graph_node(g, oc, delta) ==
    LET kind == IF oc.option_type = "Call" THEN "option_call" ELSE "option_put"
        nodes1 == InsertNodeReplace(g.nodes, oc.node_id, kind)
        r == ensure_edge_id(g.edges, oc.node_id, oc.underlying)
        channel == Ch(IF oc.option_type = "Call" THEN "options_leverages"
                      ELSE "options_hedges", "")
        strength == Min(100, (IF delta < 0 THEN 0 - delta ELSE delta) + 20)
        g1 == RewriteChannels([g EXCEPT !.nodes = nodes1, !.edges = r.edges],
                              r.eid, OneChannel(channel, strength))
        g2 == [g1 EXCEPT !.edges[r.eid].last_assessed = g.clock] IN
    UpdateDegrees(g2, {oc.node_id, oc.underlying})

\* OptionsWorker.step_once storing one selected option and committing
CreateOptionGraphNode(oc, delta) ==
    /\ DOMAIN kg.nodes # {}
    /\ kg.steps < MaxKgSteps
    /\ kg' = Stepped(create_option_graph_node(kg, oc, delta),
                     [op |-> "create_option_node"])
    /\ UNCHANGED <<budgetVars, storeVars, execVars, thinkVars, marketVars,
                   loopVars, san, critic, fetch, utilVars>>

\* utc_now() moves on between two operations
KgTick ==
    /\ kg.clock < MaxKgClock
    /\ kg' = [kg EXCEPT !.clock = @ + 1]
    /\ UNCHANGED <<budgetVars, storeVars, execVars, thinkVars, marketVars,
                   loopVars, san, critic, fetch, utilVars>>

KgStart == kg = EmptyKg

(***************************************************************************)
(* critic_score as a function of its arguments: two calls side by side     *)
(***************************************************************************)
Confs == {0 - 20, 0, 35, 70, 100, 130}
ExplanationLengths == {0, EXPLANATION_MIN_LENGTH - 1, EXPLANATION_MIN_LENGTH, 400}
Explanations == {Explanation(n, kw) : n \in ExplanationLengths, kw \in BOOLEAN}
AGGRESSIVE == 10                \* buys >= 10, sells >= 10
Aggressive(side) == [i \in 1..AGGRESSIVE |-> Dec("AAA", side, 10)]
CriticPlans == {<< >>, Aggressive("BUY"), Aggressive("SELL"),
                Aggressive("BUY") \o Aggressive("SELL")}

NoScore == [score |-> NULL]
NoCritic == [prev |-> NoScore, cur |-> NoScore]

\* critic = critic_score(explanation, decisions, conf)
CriticCall(explanation, ds, conf) ==
    /\ critic.prev.score = NULL
    /\ critic' = [prev |-> critic.cur,
                cur |-> [explanation |-> explanation, decisions |-> ds, conf |-> conf,
                         score |-> CriticScore(explanation, ds, conf)]]
    /\ UNCHANGED <<budgetVars, storeVars, execVars, thinkVars, marketVars,
                   loopVars, san, kg, fetch, utilVars>>

CriticNext ==
    \E e \in Explanations, ds \in CriticPlans, conf \in Confs : CriticCall(e, ds, conf)

(***************************************************************************)
(* last_close_many: the routing between the data providers                 *)
(***************************************************************************)
DataProviders == {"yahoo", "alpaca"}
\* get_alpaca_client(): alpaca-py missing, keys missing, service unreachable
AlpacaStates == {"ok", "not installed", "not configured", "unreachable"}
AlpacaCaches == {{}, {"AAA"}}

NoFetch == [done |-> FALSE]

\* fetch_alpaca_bars: {} on every failure, the failure of the client included
fetch_alpaca_bars(sym, client, has) == client = "ok" /\ sym \in has

\* fetch_single_ticker_alpaca gives a payload: from the cache, or from bars
\* with at least two closes
fetch_single_ticker_alpaca(sym, client, has, cached) ==
    sym \in cached \/ fetch_alpaca_bars(sym, client, has)

\* a result maps each symbol delivered to the provider its payload is from
last_close_many_alpaca(symbols, client, has, cached) ==
    [s \in {x \in symbols : fetch_single_ticker_alpaca(x, client, has, cached)} |-> "alpaca"]

last_close_many_yahoo(symbols, has) == [s \in symbols \cap has |-> "yahoo"]

\* raises: last_close_many_alpaca itself raises (the thread pool cannot start)
last_close_many(symbols, provider, client, alpaca_has, cached, yahoo_has, raises) ==
    IF provider = "alpaca" /\ ~raises
    THEN last_close_many_alpaca(symbols, client, alpaca_has, cached)
    ELSE last_close_many_yahoo(symbols, yahoo_has)

\* prices = last_close_many(primary_tickers, ...)
LastCloseMany(provider, client, alpaca_has, cached, yahoo_has, raises) ==
    /\ ~fetch.done
    /\ fetch' = [done |-> TRUE, symbols |-> Symbols, provider |-> provider,
                 client |-> client, alpaca_has |-> alpaca_has, cached |-> cached,
                 yahoo_has |-> yahoo_has, raises |-> raises,
                 result |-> last_close_many(Symbols, provider, client, alpaca_has,
                                            cached, yahoo_has, raises)]
    /\ UNCHANGED <<budgetVars, storeVars, execVars, thinkVars, marketVars,
                   loopVars, san, kg, critic, utilVars>>

FetchNext ==
    \E provider \in DataProviders, client \in AlpacaStates,
       alpaca_has \in SUBSET Symbols, cached \in AlpacaCaches,
       yahoo_has \in SUBSET Symbols, raises \in BOOLEAN :
        LastCloseMany(provider, client, alpaca_has, cached, yahoo_has, raises)

(***************************************************************************)
(* The reconciliation utility: tests/sync_alpaca_trades.py main()          *)
(***************************************************************************)
\* abs(delta) < 0.0001 share is "in sync": less than one counted unit
TOLERANCE == 1

\* trades.ts of a row: the executor stamps the rows of a cycle with utc_now(),
\* counted here in cycles
TradeTs(t) == t.insight_id

\* --since: a date before the first cycle, between the cycles, after them
SinceDates == 1..(MaxCycles + 1)

NoRecon == [phase |-> "idle", dry_run |-> FALSE, since |-> 0,
            before |-> << >>, broker |-> << >>, alpaca_qty |-> << >>,
            expected |-> << >>, delta_orders |-> << >>, i |-> 0,
            executed_orders |-> << >>, failed_orders |-> << >>]

Abs(x) == IF x < 0 THEN 0 - x ELSE x

\* symbols in sorted() order
SortedSymbols(S) == SelectSeq(<<"AAA", "BBB", "XLV">>, LAMBDA s : s \in S)

\* the delta_orders entry of one symbol, << >> when it is in sync
DeltaOrder(symbol, local, alpaca) ==
    LET delta == local - alpaca IN
    IF Abs(delta) < TOLERANCE THEN << >>
    ELSE IF delta > 0 THEN <<[symbol |-> symbol, side |-> "BUY", qty |-> delta]>>
    ELSE <<[symbol |-> symbol, side |-> "SELL", qty |-> Abs(delta)]>>

RECURSIVE DeltaOrders(_, _, _)
DeltaOrders(syms, expected, alpaca) ==
    IF syms = << >> THEN << >>
    ELSE LET s == Head(syms)
             local == IF s \in DOMAIN expected THEN expected[s] ELSE 0
             theirs == IF s \in DOMAIN alpaca THEN alpaca[s] ELSE 0 IN
         DeltaOrder(s, local, theirs) \o DeltaOrders(Tail(syms), expected, alpaca)

\* Step 1: sync_alpaca_account, then sync_alpaca_positions, in one store
\* transaction.  A failed account sync ends the run (sys.exit(1) leaves the
\* with block by an exception: rollback); a failed position sync returns []
ReconSync(dry_run, since, acct, acct_ok, pos_ok) ==
    /\ cfg.broker = "alpaca"
    /\ recon.phase = "idle"
    /\ ex.phase \in {"idle", "done"}
    /\ db_lock = "free"
    /\ mkt = IdleMkt
    /\ IF acct_ok
       THEN /\ cash' = acct.cash
            /\ positions' = IF pos_ok
                             THEN SyncPositions(positions, acct.positions, snap_id)
                             ELSE positions
            /\ recon' = [NoRecon EXCEPT
                           !.phase = "synced", !.dry_run = dry_run, !.since = since,
                           !.before = [s \in DOMAIN positions |-> positions[s].qty],
                           !.broker = [s \in DOMAIN acct.positions |->
                                          acct.positions[s].qty],
                           !.alpaca_qty = IF pos_ok
                                          THEN [s \in DOMAIN acct.positions |->
                                                   acct.positions[s].qty]
                                          ELSE << >>]
       ELSE /\ recon' = [NoRecon EXCEPT !.phase = "exit", !.dry_run = dry_run,
                                        !.since = since]
            /\ UNCHANGED <<cash, positions>>
    /\ UNCHANGED <<budgetVars, marketVars, loopVars, san, kg, critic, fetch,
                   life, dream, api, prices, trades, execVars, thinkVars>>

\* Steps 2 to 4: the trades since the date (none: return), the expected
\* positions read from the positions table, the delta orders
ReconCompare ==
    /\ recon.phase = "synced"
    /\ db_lock = "free"
    /\ LET since_trades == SelectSeq(trades, LAMBDA t : TradeTs(t) >= recon.since)
           held == {s \in DOMAIN positions : positions[s].qty > 0}
           expected_positions == [s \in held |-> positions[s].qty]
           all_symbols == held \cup DOMAIN recon.alpaca_qty
           orders == DeltaOrders(SortedSymbols(all_symbols), expected_positions,
                                 recon.alpaca_qty) IN
       IF Len(since_trades) = 0
       THEN recon' = [recon EXCEPT !.phase = "done"]
       ELSE recon' = [recon EXCEPT
                        !.expected = expected_positions,
                        !.delta_orders = orders,
                        !.i = 1,
                        !.phase = IF orders = << >> \/ recon.dry_run
                                  THEN "done" ELSE "submit"]
    /\ UNCHANGED <<budgetVars, storeVars, marketVars, loopVars, san, kg, critic,
                   fetch, life, dream, api, execVars, thinkVars>>

\* Step 5, one iteration: client.submit_order for the next delta order
ReconSubmit(accepted) ==
    /\ recon.phase = "submit"
    /\ IF recon.i <= Len(recon.delta_orders)
       THEN LET order == recon.delta_orders[recon.i] IN
            recon' = [recon EXCEPT
                        !.i = @ + 1,
                        !.executed_orders = IF accepted THEN Append(@, order) ELSE @,
                        !.failed_orders = IF accepted THEN @ ELSE Append(@, order)]
       ELSE recon' = [recon EXCEPT !.phase = "done"]
    /\ UNCHANGED <<budgetVars, storeVars, marketVars, loopVars, san, kg, critic,
                   fetch, life, dream, api, execVars, thinkVars>>

\* the utility, run after cycles of the paper executor
ReconNext ==
    \/ \E ds \in BrokerDecisionLists : recon.phase = "idle" /\ ExecBegin(ds)
    \/ ExecStep
    \/ ExecEnd
    \/ \E dry_run, acct_ok, pos_ok \in BOOLEAN, since \in SinceDates,
          acct \in BrokerAccounts :
          ReconSync(dry_run, since, acct, acct_ok, pos_ok)
    \/ ReconCompare
    \/ \E accepted \in BOOLEAN : ReconSubmit(accepted)

(***************************************************************************)
(* start() and stop_now() statement by statement, called from the request  *)
(* threads of the server (app.run(threaded=True)) on one worker            *)
(***************************************************************************)
MaxLoopThreads == 2     \* Thread objects created per behaviour
MaxRequests == 3        \* worker control requests per behaviour

Requesters == {"r1", "r2"}
LoopThreads == 1..MaxLoopThreads

\* thread: the Thread object in self.thread, 0 for None; loops: per Thread
\* object "none" (not created), "created", "test" and "step" (alive, at the
\* while condition of _loop and inside its body), "dead"
NoLife == [running |-> FALSE, stop |-> FALSE, thread |-> 0,
           loops |-> [k \in LoopThreads |-> "none"],
           req |-> [r \in Requesters |-> [pc |-> "idle", made |-> 0]],
           requests |-> 0]

\* Thread.is_alive()
IsAlive(state) == state \in {"test", "step"}

AliveLoops == {k \in LoopThreads : IsAlive(life.loops[k])}

LifeFrame ==
    UNCHANGED <<budgetVars, storeVars, execVars, thinkVars, marketVars, loopVars,
                san, kg, critic, fetch, recon, dream, api>>

\* POST /api/<worker>/start arrives: if not W.running: W.start()
RouteStart(r) ==
    /\ life.req[r].pc = "idle"
    /\ life.requests < MaxRequests
    /\ \E k \in LoopThreads : life.loops[k] = "none"
    /\ life' = [life EXCEPT !.requests = @ + 1,
                            !.req[r].pc = IF life.running THEN "idle" ELSE "check"]
    /\ LifeFrame

\* if self.thread and self.thread.is_alive(): return
StartCheck(r) ==
    /\ life.req[r].pc = "check"
    /\ life' = [life EXCEPT !.req[r].pc =
           IF life.thread # 0 /\ IsAlive(life.loops[life.thread])
           THEN "idle" ELSE "set_running"]
    /\ LifeFrame

\* self.running = True
StartSetRunning(r) ==
    /\ life.req[r].pc = "set_running"
    /\ life' = [life EXCEPT !.running = TRUE, !.req[r].pc = "clear"]
    /\ LifeFrame

\* self.stop.clear()
StartClear(r) ==
    /\ life.req[r].pc = "clear"
    /\ life' = [life EXCEPT !.stop = FALSE, !.req[r].pc = "create"]
    /\ LifeFrame

\* self.thread = threading.Thread(target=self._loop, daemon=True)
StartCreate(r) ==
    /\ life.req[r].pc = "create"
    /\ \E k \in LoopThreads :
          /\ life.loops[k] = "none"
          /\ \A j \in LoopThreads : j < k => life.loops[j] # "none"
          /\ life' = [life EXCEPT !.thread = k, !.loops[k] = "created",
                                  !.req[r] = [pc |-> "launch", made |-> k]]
    /\ LifeFrame

\* self.thread.start(): the object self.thread names at this moment; a
\* Thread that was started already raises RuntimeError
StartLaunch(r) ==
    /\ life.req[r].pc = "launch"
    /\ life' = [life EXCEPT
           !.loops[life.thread] = IF @ = "created" THEN "test" ELSE @,
           !.req[r].pc = "idle"]
    /\ LifeFrame

\* POST /api/<worker>/stop arrives: stop_now(), self.running = False
StopSetRunning(r) ==
    /\ life.req[r].pc = "idle"
    /\ life.requests < MaxRequests
    /\ life' = [life EXCEPT !.requests = @ + 1, !.running = FALSE,
                            !.req[r].pc = "set"]
    /\ LifeFrame

\* self.stop.set()
StopSet(r) ==
    /\ life.req[r].pc = "set"
    /\ life' = [life EXCEPT !.stop = TRUE, !.req[r].pc = "idle"]
    /\ LifeFrame

\* _loop: while self.running and not self.stop.is_set()
LifeLoopTest(k) ==
    /\ life.loops[k] = "test"
    /\ life' = [life EXCEPT !.loops[k] =
           IF life.running /\ ~life.stop THEN "step" ELSE "dead"]
    /\ LifeFrame

\* _loop: the body, step_once and jitter_sleep, has ended
LifeLoopBody(k) ==
    /\ life.loops[k] = "step"
    /\ life' = [life EXCEPT !.loops[k] = "test"]
    /\ LifeFrame

LifeNext ==
    \/ \E r \in Requesters : RouteStart(r)
    \/ \E r \in Requesters : StartCheck(r)
    \/ \E r \in Requesters : StartSetRunning(r)
    \/ \E r \in Requesters : StartClear(r)
    \/ \E r \in Requesters : StartCreate(r)
    \/ \E r \in Requesters : StartLaunch(r)
    \/ \E r \in Requesters : StopSetRunning(r)
    \/ \E r \in Requesters : StopSet(r)
    \/ \E k \in LoopThreads : LifeLoopTest(k)
    \/ \E k \in LoopThreads : LifeLoopBody(k)

(***************************************************************************)
(* DreamWorker._assess_pair statement by statement: the store transaction  *)
(* of db_conn() around the call of llm_chat_json                           *)
(***************************************************************************)
IdleDream == [pc |-> "idle", inv |-> NIL, bw |-> NIL, c |-> 0]

DreamFrame ==
    UNCHANGED <<storeVars, execVars, marketVars, loopVars, san, critic, fetch,
                recon, life, api, snap_id, insights, think, approve,
                market_open, cfg>>

\* with db_conn() as conn: DB_LOCK is taken; the snapshot is read, the
\* correlation and the heuristic channels are computed; use_llm is
\* random.random() < 0.30
AssessPairBegin(inv, bw, c, use_llm) ==
    /\ dream.pc = "idle"
    /\ db_lock = "free"
    /\ kg.steps < MaxKgSteps
    /\ snapshots # {}
    /\ db_lock' = "dream"
    /\ dream' = [pc |-> IF use_llm THEN "ask" ELSE "write",
                 inv |-> inv, bw |-> bw, c |-> c]
    /\ UNCHANGED <<budgetVars, kg>>
    /\ DreamFrame

\* parsed, _raw = llm_chat_json(system, user_prompt): the call is made
AssessPairAsk ==
    /\ dream.pc = "ask"
    /\ dream' = [dream EXCEPT !.pc = "llm"]
    /\ UNCHANGED <<budgetVars, kg, db_lock>>
    /\ DreamFrame

\* the rest of the with block: the edge, its channels, weight, degrees, the
\* commit and the release of DB_LOCK; reply is the channels of a parsed reply
AssessPairWrite(reply) ==
    /\ \/ dream.pc = "write" /\ reply = NoLlm
       \/ /\ dream.pc = "llm"
          /\ chat["dream"].pc = "done"
          /\ chat["dream"].obj = NIL => reply = NoLlm
    /\ chat' = [chat EXCEPT !["dream"] = IdleChat]
    /\ kg' = Stepped(AssessEdge(kg, dream.inv, dream.bw,
                                CleanChannels(reply, HeuristicChannels(dream.bw, dream.c))),
                     [op |-> "assess_pair"])
    /\ db_lock' = "free"
    /\ dream' = IdleDream
    /\ UNCHANGED <<now, budget, grants, llm_cfg>>
    /\ DreamFrame

\* the Dream worker's pair assessments and the provider's answers
AssessNext ==
    \/ \E inv \in Symbols, bw \in BELLWETHERS, c \in Correlations, use_llm \in BOOLEAN :
          AssessPairBegin(inv, bw, c, use_llm)
    \/ AssessPairAsk
    \/ dream.pc = "llm" /\ ChatBegin("dream")
    \/ \E raw \in RawTexts : ChatResponse("dream", raw)
    \/ ChatTransportError("dream")
    \/ \E reply \in DreamReplies : AssessPairWrite(reply)

(***************************************************************************)
(* The budget of src.llm.budget that GET /api/state reports                *)
(***************************************************************************)
NoStats == [calls_used |-> NULL, calls_budget |-> NULL, last_error |-> NIL]

\* src/llm/budget.py: LLM_BUDGET = LLMBudget(LLM_CALLS_PER_MIN); llm is the
\* "llm" entry of the latest answer of the endpoint
NoApi == [budget |-> NewBudget(LLM_CALLS_PER_MIN, 0), llm |-> NoStats]

\* llm = LLM_BUDGET.stats() with the LLM_BUDGET imported in routes/api.py
ReportedLlm == Stats(api.budget, now)

\* GET /api/state: stats() resets the window of the budget it reads
StateLlm ==
    /\ api' = [budget |-> ResetIfNeeded(api.budget, now), llm |-> ReportedLlm]
    /\ UNCHANGED <<budgetVars, storeVars, execVars, thinkVars, marketVars,
                   loopVars, san, kg, critic, fetch, recon, life, dream>>

\* the committee's chat_json calls, the clock and the state endpoint
StateNext ==
    \/ ChatBegin("think")
    \/ ChatReturn("think")
    \/ \E raw \in RawTexts : ChatResponse("think", raw)
    \/ ChatTransportError("think")
    \/ \E d \in TimeSteps : Tick(d)
    \/ StateLlm

PureQuiet ==
    /\ critic = NoCritic /\ fetch = NoFetch /\ recon = NoRecon /\ life = NoLife
    /\ dream = IdleDream /\ api = NoApi

FnQuiet == san = NoCall /\ KgStart /\ PureQuiet

\* the Dream worker's assessments of option nodes
DreamOptionsNext ==
    \/ \E opt \in OptionNodes(kg), bw \in BELLWETHERS, c \in Correlations, reply \in DreamReplies :
          AssessOptionBellwetherPair(opt, bw, c, reply)
    \/ \E a \in OptionNodes(kg), b \in OptionNodes(kg), chs \in OptionOptionChannels,
          reply \in DreamReplies :
          AssessOptionOptionPair(a, b, chs, reply)
    \/ KgTick

\* the graph once the Options monitor has stored both contracts
MonitoredKg ==
    LET call == CHOOSE oc \in OptionContracts : oc.option_type = "Call"
        put == CHOOSE oc \in OptionContracts : oc.option_type = "Put" IN
    create_option_graph_node(create_option_graph_node(bootstrap(EmptyKg), call, 30),
                             put, 0 - 90)

KgNext ==
    \/ BootstrapIfEmpty
    \/ \E inv \in Symbols, bw \in BELLWETHERS, c \in Correlations, reply \in DreamReplies :
          AssessPair(inv, bw, c, reply)
    \/ \E opt \in OptionNodes(kg), bw \in BELLWETHERS, c \in Correlations, reply \in DreamReplies :
          AssessOptionBellwetherPair(opt, bw, c, reply)
    \/ \E a \in OptionNodes(kg), b \in OptionNodes(kg), chs \in OptionOptionChannels,
          reply \in DreamReplies :
          AssessOptionOptionPair(a, b, chs, reply)
    \/ \E oc \in OptionContracts, delta \in Deltas : CreateOptionGraphNode(oc, delta)
    \/ KgTick

(***************************************************************************)
(* Specifications                                                          *)
(***************************************************************************)
Configs == [auto_trade : BOOLEAN, trade_anytime : BOOLEAN,
            broker : {"paper", "alpaca"}]

ThinkStart ==
    /\ insights = << >>
    /\ think = IdleThink
    /\ approve = [c \in Clients |-> IdleApprove]
    /\ db_lock = "free"

ThinkQuiet ==
    /\ ThinkStart
    /\ market_open = TRUE
    /\ cfg = [auto_trade |-> TRUE, trade_anytime |-> FALSE, broker |-> "paper"]

BudgetQuiet ==
    /\ now = 0
    /\ budget = NewBudget(LLM_CALLS_PER_MIN, 0)
    /\ grants = << >>
    /\ chat = [c \in Callers |-> IdleChat]
    /\ llm_cfg = [provider |-> "ollama", openrouter_ok |-> FALSE]

\* the budget and the chat_json adapter
BudgetInit == BudgetStart /\ StoreStart /\ ExecStart /\ ThinkQuiet
    /\ MarketStart /\ LoopStart /\ FnQuiet

SpecBudget == BudgetInit /\ [][BudgetNext]_vars

\* the executor and the Market worker's price updates
ExecInit == BudgetQuiet /\ StoreStart /\ ExecStart /\ ThinkQuiet
    /\ MarketStart /\ LoopStart /\ FnQuiet

ExecNext ==
    \/ \E ds \in DecisionLists : ExecBegin(ds)
    \/ ExecStep
    \/ ExecEnd
    \/ \E pm \in PriceMaps : MarketStep(pm)

SpecExec == ExecInit /\ [][ExecNext]_vars

\* the Think worker, approve requests and the clock
ThinkInit ==
    /\ BudgetQuiet /\ StoreStart /\ ExecStart /\ ThinkStart
    /\ MarketStart /\ LoopStart /\ FnQuiet
    /\ market_open \in BOOLEAN
    /\ cfg \in Configs

ThinkNext ==
    \/ ThinkRead
    \/ \E prompt_ok \in BOOLEAN, reply \in CommitteeReplies :
          ThinkCommittee(prompt_ok, reply)
    \/ ThinkInsert
    \/ ThinkFinish
    \/ \E c \in Clients, id \in 1..MaxInsights : ApproveBegin(c, id)
    \/ \E c \in Clients : ApproveFinish(c)
    \/ MarketClock

SpecThink == ThinkInit /\ [][ThinkNext]_vars

\* the store transaction of the Market step, a held position, and a reader
TableStarts == {1, SNAPSHOT_KEEP - 1}

HeldStart ==
    LET r == ExecutePaperTrades(START_CASH, << >>, << >>,
                                <<Dec("AAA", "BUY", 80)>>,
                                [s \in Symbols |-> 10], 1, 1) IN
    /\ prices = [s \in Symbols |-> 10]
    /\ cash = r.cash
    /\ positions = r.positions
    /\ trades = r.trades

MarketInit ==
    /\ BudgetQuiet /\ ExecStart /\ ThinkQuiet /\ LoopStart /\ FnQuiet
    /\ HeldStart
    /\ snap_id \in TableStarts
    /\ MarketStart

MarketNext ==
    \/ \E pm \in PriceMaps : MarketTxBegin(pm)
    \/ MarketTxWrite
    \/ MarketTxCommit
    \/ MarketTxFail
    \/ ThinkRead

SpecMarket == MarketInit /\ [][MarketNext]_vars

\* the loops of the three workers and their controls
LoopInit ==
    /\ BudgetQuiet /\ StoreStart /\ ExecStart /\ ThinkQuiet
    /\ MarketStart /\ LoopStart /\ FnQuiet

LoopNext ==
    \/ \E w \in Workers : Start(w)
    \/ \E w \in Workers : StopNow(w)
    \/ \E w \in Workers : LoopStep(w)

SpecLoop == LoopInit /\ [][LoopNext]_vars

\* two of the loops, with threads that are scheduled again and again, a
\* step_once that returns (its calls have timeouts) and a time.sleep that ends
StopWorkers == {"dream", "market"}

StopNext ==
    \/ \E w \in StopWorkers : Start(w)
    \/ \E w \in StopWorkers : StopNow(w)
    \/ \E w \in StopWorkers : LoopStep(w)

SpecStop ==
    /\ LoopInit
    /\ [][StopNext]_vars
    /\ \A w \in StopWorkers : WF_vars(LoopStep(w))

\* execute_alpaca_trades called on its own
BrokerInit ==
    /\ BudgetQuiet /\ StoreStart /\ ExecStart /\ ThinkStart
    /\ MarketStart /\ LoopStart /\ FnQuiet
    /\ market_open = TRUE
    /\ cfg = [auto_trade |-> TRUE, trade_anytime |-> FALSE, broker |-> "alpaca"]

BrokerNext ==
    \/ \E ds \in BrokerDecisionLists, acct \in BrokerAccounts, acct_ok, pos_ok \in BOOLEAN :
          AlpacaBegin(ds, acct, acct_ok, pos_ok)
    \/ AlpacaStep
    \/ AlpacaEnd

SpecBroker == BrokerInit /\ [][BrokerNext]_vars

\* control requests on one worker, interleaved with its loop threads
SpecLife == LoopInit /\ [][LifeNext]_vars

\* the Dream worker's assessments over the bootstrapped graph
AssessInit ==
    /\ BudgetStart /\ StoreStart /\ ExecStart /\ ThinkQuiet
    /\ MarketStart /\ LoopStart /\ san = NoCall /\ PureQuiet
    /\ kg = bootstrap(EmptyKg)

SpecAssess == AssessInit /\ [][AssessNext]_vars

\* the state endpoint beside the adapter
SpecState == BudgetInit /\ [][StateNext]_vars

\* the reconciliation utility after paper cycles
SpecRecon == BrokerInit /\ [][ReconNext]_vars

\* the sync of /api/state and the Market worker
SyncNext ==
    \/ \E acct \in BrokerAccounts, acct_ok, pos_ok \in BOOLEAN :
          StateSync(acct, acct_ok, pos_ok)
    \/ \E pm \in PriceMaps : MarketStep(pm)

SpecSync == BrokerInit /\ [][SyncNext]_vars

\* sanitize_decisions as a function of its argument
SanitizeInit ==
    /\ BudgetQuiet /\ StoreStart /\ ExecStart /\ ThinkQuiet
    /\ MarketStart /\ LoopStart /\ KgStart /\ PureQuiet
    /\ \E is_list \in BOOLEAN, items \in RawSeqs(MaxRawLen) :
          san = [NoCall EXCEPT !.raw = [is_list |-> is_list, items |-> items]]

SpecSanitize == SanitizeInit /\ [][Sanitize]_vars

\* the knowledge graph from the empty store on
KgInit ==
    /\ BudgetQuiet /\ StoreStart /\ ExecStart /\ ThinkQuiet
    /\ MarketStart /\ LoopStart /\ FnQuiet

SpecKG == KgInit /\ [][KgNext]_vars

\* the Dream worker over a graph with monitored options
DreamInit ==
    /\ BudgetQuiet /\ StoreStart /\ ExecStart /\ ThinkQuiet
    /\ MarketStart /\ LoopStart /\ san = NoCall /\ PureQuiet
    /\ kg = MonitoredKg

SpecDream == DreamInit /\ [][DreamOptionsNext]_vars

\* critic_score over its arguments
SpecCritic == KgInit /\ [][CriticNext]_vars

\* last_close_many over the states of the providers
SpecFetch == KgInit /\ [][FetchNext]_vars

\* the whole program
Init ==
    /\ BudgetStart /\ StoreStart /\ ExecStart /\ ThinkStart
    /\ MarketStart /\ LoopStart /\ FnQuiet
    /\ market_open \in BOOLEAN
    /\ cfg \in Configs

Next ==
    BudgetNext \/ ExecNext \/ ThinkNext \/ MarketNext \/ LoopNext \/ Sanitize
    \/ BrokerNext \/ SyncNext \/ KgNext \/ DreamOptionsNext \/ CriticNext \/ FetchNext
    \/ ReconNext \/ LifeNext \/ AssessNext \/ StateNext

Spec == Init /\ [][Next]_vars

(***************************************************************************)
(* C1: in any 60 second interval at most calls_per_min acquire() calls     *)
(* return True.  Checked on the interval of 60 seconds that ends now.      *)
(***************************************************************************)
GrantsInTrailingWindow ==
    Cardinality({i \in 1..Len(grants) : grants[i] > now - WINDOW_SECS})

C1_RollingWindowBudget == GrantsInTrailingWindow <= budget.calls_per_min

(***************************************************************************)
(* C10: a chat_json call refused by the budget returns (nil, nil), makes   *)
(* no provider call and leaves calls and last_error untouched.             *)
(***************************************************************************)
Refused(c) ==
    /\ chat[c].pc = "idle"
    /\ chat'[c].pc = "done"
    /\ ~chat'[c].acquired

C10_RefusedLeavesBudget ==
    [][\A c \in Callers :
          Refused(c) =>
            /\ chat'[c].obj = NIL /\ chat'[c].ret_raw = NIL
            /\ chat'[c].requests = 0
            /\ budget'.calls = budget.calls
            /\ budget'.last_error = budget.last_error]_vars

C10_Witness ==
    \E c \in Callers :
        /\ chat[c].pc = "done" /\ ~chat[c].acquired
        /\ budget.calls = budget.calls_per_min
        /\ budget.last_error # NIL

(***************************************************************************)
(* Vocabulary of the executor claims                                       *)
(***************************************************************************)
SideOnly(seq, side) == SelectSeq(seq, LAMBDA x : x.side = side)

RECURSIVE SumNotional(_)
SumNotional(seq) ==
    IF seq = << >> THEN 0 ELSE Head(seq).notional + SumNotional(Tail(seq))

\* the cycle's state when its whole SELL loop has run
AfterSells(e) == Pass("SELL", e.start, e.ds, 1, e.pr, e.iid, e.iid)

\* the rows a cycle has appended to the trades table
CycleTrades(e, tr) == SubSeq(tr, Len(e.start.trades) + 1, Len(tr))

\* a step that considers one decision in the BUY loop
BuyIteration ==
    /\ ex.phase = "run"
    /\ ex.pass <= Len(PassOrder)
    /\ PassOrder[ex.pass] = "BUY"
    /\ ex'.pass = ex.pass
    /\ ex'.i = ex.i + 1

CycleDone == ex.phase = "done"

\* MAX_SYMBOL_WEIGHT_PCT percent of the equity at cycle start
CapAtStart(e) == (e.start.equity * MAX_SYMBOL_WEIGHT_PCT) \div 100

BuysExecuted(e) == SideOnly(e.st.executed, "BUY") # << >>

\* quantity times the cycle's price, per symbol, after the cycle
MvAfter(e, s) == PortfolioState(e.st.cash, e.st.positions, e.pr).mv[s]

(***************************************************************************)
(* C2: within one execute_trades cycle every SELL slice is fully executed  *)
(* (position reduced, trade appended, cash credited) before any BUY slice  *)
(* is considered, whatever the order of the decisions, and the cash freed  *)
(* by the SELLs counts towards the spendable cash of the cycle's BUYs.     *)
(***************************************************************************)
C2_SellsBeforeBuys ==
    [][BuyIteration =>
        /\ SideOnly(ex.st.executed, "SELL") = AfterSells(ex).executed
        /\ SideOnly(CycleTrades(ex, ex.st.trades), "SELL")
              = CycleTrades(ex, AfterSells(ex).trades)
        /\ ex.i = 1 => ex.st = AfterSells(ex)
        /\ ex.st.cash = AfterSells(ex).cash
                          - SumNotional(SideOnly(ex.st.executed, "BUY"))
        /\ ex'.st.cash < ex.st.cash =>
              ex.st.cash - ex'.st.cash <= ex.st.cash - ex.st.cash_buffer]_vars

\* a BUY listed before a SELL spent more than the cycle could spend at its start
C2_Witness ==
    /\ CycleDone
    /\ \E j, k \in 1..Len(ex.ds) :
          j < k /\ ex.ds[j].action = "BUY" /\ ex.ds[k].action = "SELL"
    /\ SideOnly(ex.st.executed, "SELL") # << >>
    /\ SumNotional(SideOnly(ex.st.executed, "BUY"))
          > Max(0, ex.start.cash - ex.start.cash_buffer)

(***************************************************************************)
(* C3: at the end of every execute_trades cycle cash >= 0 and cash >=      *)
(* cash_buffer, unless the cycle started with cash below cash_buffer, in   *)
(* which case the cycle executes no BUY.                                   *)
(***************************************************************************)
C3_BufferOrNoBuy ==
    CycleDone =>
        /\ cash >= 0
        /\ IF ex.start.cash < ex.start.cash_buffer
           THEN ~BuysExecuted(ex)
           ELSE cash >= ex.start.cash_buffer

\* C3 as amended: cash >= 0, and cash >= cash_buffer unless the cycle
\* started below cash_buffer and executed no BUY; every cycle that executes
\* a BUY ends with cash >= cash_buffer.
C3_BufferUnlessNoBuy ==
    CycleDone =>
        /\ cash >= 0
        /\ \/ cash >= ex.start.cash_buffer
           \/ ex.start.cash < ex.start.cash_buffer /\ ~BuysExecuted(ex)

\* a cycle that started below its cash buffer, sold, and then bought
C3_Witness ==
    /\ CycleDone
    /\ ex.start.cash < ex.start.cash_buffer
    /\ BuysExecuted(ex)
    /\ cash >= ex.start.cash_buffer

(***************************************************************************)
(* C4: after every execute_trades cycle no symbol's market value exceeds   *)
(* MAX_SYMBOL_WEIGHT_PCT percent of the equity at cycle start by more than *)
(* MIN_TRADE_NOTIONAL.                                                     *)
(***************************************************************************)
C4_SymbolCap ==
    CycleDone =>
        \A s \in Symbols :
            MvAfter(ex, s) <= CapAtStart(ex) + MIN_TRADE_NOTIONAL

\* C4 as amended: the bound is the larger of the cap and the market value
\* the symbol already had at cycle start
C4_SymbolCapOrStart ==
    CycleDone =>
        \A s \in Symbols :
            MvAfter(ex, s) <= Max(CapAtStart(ex),
                                  ex.start.mv_by_sym[s]) + MIN_TRADE_NOTIONAL

\* one symbol above the cap since the cycle's start, another bought up to it
C4_Witness ==
    /\ CycleDone
    /\ \E s \in Symbols :
          ex.start.mv_by_sym[s] > CapAtStart(ex) + MIN_TRADE_NOTIONAL
    /\ \E k \in 1..Len(ex.st.executed) :
          /\ ex.st.executed[k].side = "BUY"
          /\ MvAfter(ex, ex.st.executed[k].ticker) = CapAtStart(ex)

(***************************************************************************)
(* Vocabulary of the Think and approve claims                              *)
(***************************************************************************)
\* a step that ends an approve request of client c
ApproveEnds(c) == approve[c].pc = "locked" /\ approve'[c].pc = "idle"

\* the step that ends a Think step after its insight was inserted
ThinkStepEnds == think.pc = "inserted" /\ think'.pc = "idle"

\* the step that writes the insight of a Think step
ThinkWrites == think.pc = "write" /\ think'.pc = "inserted"

\* the step in which the committee call of a Think step returns
CommitteeReturns == think.pc = "llm" /\ think'.pc = "write"

TradesOf(tr, id) == SelectSeq(tr, LAMBDA t : t.insight_id = id)

(***************************************************************************)
(* C5: the decisions of one insight are executed at most once.  An approve *)
(* of a new or queued insight, the window allowing, runs the executor and  *)
(* sets the status to applied; an approve of an applied insight executes   *)
(* nothing and changes no cash, position or status.  This holds with       *)
(* concurrent approve requests and with the Think worker's auto-execution. *)
(***************************************************************************)
C5_ExecutedAtMostOnce ==
    [][/\ \A i \in 1..Len(insights') :
            /\ insights'[i].runs <= 1
            /\ (insights'[i].runs = 1) <=> (insights'[i].status = "applied")
       /\ \A c \in Clients :
            ApproveEnds(c) =>
              LET id == approve[c].id IN
              /\ insights[id].status = "applied" =>
                    /\ cash' = cash /\ positions' = positions
                    /\ trades' = trades /\ insights' = insights
              /\ insights[id].status \in {"new", "queued"} /\ CanTradeNow =>
                    /\ insights'[id].status = "applied"
                    /\ insights'[id].runs = insights[id].runs + 1]_vars

\* an approve request in progress on an insight that is applied and has trades
C5_Witness ==
    \E c \in Clients :
        /\ approve[c].pc = "locked"
        /\ insights[approve[c].id].status = "applied"
        /\ insights[approve[c].id].runs = 1
        /\ TradesOf(trades, approve[c].id) # << >>

(***************************************************************************)
(* C6: an insight written by a Think step ends the step applied exactly    *)
(* when auto_trade is on, it is starred (critic_score >= STAR_THRESHOLD)   *)
(* and the trading window allows; queued exactly when auto_trade is on, it *)
(* is starred and the window disallows; new otherwise, and then no trade   *)
(* carries its insight_id.                                                 *)
(***************************************************************************)
C6_StatusRule ==
    [][ThinkStepEnds =>
        LET id == Len(insights)
            s == insights'[id].status
            auto == cfg.auto_trade /\ insights[id].crit >= STAR_THRESHOLD IN
        /\ (s = "applied") <=> (auto /\ think.can_trade_now)
        /\ (s = "queued") <=> (auto /\ ~think.can_trade_now)
        /\ (s = "new") <=> ~auto
        /\ s = "new" => TradesOf(trades', id) = << >>]_vars

(***************************************************************************)
(* C7: trades are executed for an insight only if, at the moment of        *)
(* execution, trade_anytime is true or the market is closed.               *)
(***************************************************************************)
C7_TradingWindow ==
    [][Len(trades') > Len(trades) => cfg.trade_anytime \/ ~market_open]_vars

(***************************************************************************)
(* C8: the insight row of a Think step, the changes of its auto-execution  *)
(* and the status update to applied are one transaction: whoever reads the *)
(* store finds an insight that was due for auto-execution applied, with    *)
(* its execution done, and never such an insight without them.             *)
(***************************************************************************)
C8_OneTransaction ==
    db_lock = "free" =>
        \A i \in 1..Len(insights) :
            insights[i].eligible =>
                insights[i].status = "applied" /\ insights[i].runs = 1

(***************************************************************************)
(* C9: when the committee LLM call yields no parsed object, or a decision  *)
(* list that is empty after sanitizing, the insight written by the Think   *)
(* step carries the rule based fallback's decisions and confidence 0.42.   *)
(***************************************************************************)
C9_FallbackOnFailure ==
    [][/\ CommitteeReturns /\ think'.llm_failed =>
            /\ think'.decisions
                  = RuleBasedFallback(think.score, think.risk_off).decisions
            /\ think'.conf = FALLBACK_CONF
       /\ ThinkWrites =>
            LET ins == insights'[Len(insights')] IN
            ins.decisions = think.decisions /\ ins.conf = think.conf]_vars

(***************************************************************************)
(* Vocabulary of the adapter claims                                        *)
(***************************************************************************)
\* a step of caller c's chat_json call after its budget acquisition
InCall(c) == chat[c].pc = "call" /\ chat'[c] # chat[c]

\* a step in which a provider response arrives for caller c
Answered(c) == chat[c].pc = "call" /\ chat'[c].answered = chat[c].answered + 1

(***************************************************************************)
(* C11: one chat_json call acquires the budget exactly once and makes at   *)
(* most 1 + max_reask provider calls; a re-ask follows only a response     *)
(* that failed to parse, and the first response that parses ends the call  *)
(* by returning (obj, raw).                                                *)
(***************************************************************************)
C11_OneAcquireBoundedCalls ==
    [][\A c \in Callers :
        /\ chat'[c].requests <= 1 + Max(0, LLM_MAX_REASK)
        /\ chat'[c].requests > chat[c].requests => chat[c].acquired
        /\ chat[c].pc = "idle" /\ chat'[c].acquired =>
              /\ grants' = Append(grants, now)
              /\ budget'.calls = ResetIfNeeded(budget, now).calls + 1
        /\ InCall(c) =>
              /\ grants' = grants
              /\ budget'.calls = budget.calls
              /\ budget'.window_start = budget.window_start
        /\ InCall(c) /\ chat'[c].pc = "call" =>
              /\ Answered(c)
              /\ ExtractJson(chat'[c].raw) = NIL
        /\ Answered(c) /\ ExtractJson(chat'[c].raw) # NIL =>
              /\ chat'[c].pc = "done"
              /\ chat'[c].obj = ExtractJson(chat'[c].raw)
              /\ chat'[c].ret_raw = chat'[c].raw]_vars

\* a call that parsed the answer to its re-ask: two provider calls, one grant
C11_Witness ==
    \E c \in Callers :
        /\ chat[c].pc = "done"
        /\ chat[c].requests = 1 + Max(0, LLM_MAX_REASK)
        /\ chat[c].obj # NIL
        /\ budget.calls = 1

(***************************************************************************)
(* C12: when the first response and all max_reask re-ask responses fail to *)
(* parse, chat_json returns (nil, last_raw), last_raw being the text of    *)
(* the last provider response, and last_error is "parse_fail".             *)
(***************************************************************************)
C12_ParseFailReturnsLastRaw ==
    [][\A c \in Callers :
        /\ Answered(c)
        /\ chat'[c].answered = 1 + Max(0, LLM_MAX_REASK)
        /\ ExtractJson(chat'[c].raw) = NIL
        => /\ chat'[c].pc = "done"
           /\ chat'[c].obj = NIL
           /\ chat'[c].ret_raw = chat'[c].raw
           /\ budget'.last_error = "parse_fail"]_vars

\* two different texts failed to parse; the second one is returned
C12_Witness ==
    \E c \in Callers :
        /\ chat[c].pc = "done"
        /\ chat[c].answered = 1 + Max(0, LLM_MAX_REASK)
        /\ chat[c].obj = NIL
        /\ chat[c].ret_raw = "prose_c"
        /\ budget.last_error = "parse_fail"

(***************************************************************************)
(* C13: chat_json never raises to its caller: a transport, non-200 or      *)
(* timeout failure, on the first provider call or on a re-ask, comes back  *)
(* as a nil parsed object with last_error set to a description.            *)
(***************************************************************************)
C13_FailuresInBand ==
    [][\A c \in Callers :
        /\ InCall(c) => chat'[c].pc \in {"call", "done"}
        /\ InCall(c) /\ ~Answered(c) =>
              /\ chat'[c].pc = "done"
              /\ chat'[c].obj = NIL
              /\ budget'.last_error \notin {NIL, ""}]_vars

\* a call whose re-ask failed in transport
C13_Witness ==
    \E c \in Callers :
        /\ chat[c].pc = "done"
        /\ chat[c].reasks = 1
        /\ chat[c].requests = chat[c].answered + 1
        /\ chat[c].obj = NIL
        /\ budget.last_error = "transport"

(***************************************************************************)
(* C14: after any Market step the snapshots table holds at most 1500 rows, *)
(* and the rows kept are exactly the most recent ones (the highest ids).   *)
(* Checked on the committed table.                                         *)
(***************************************************************************)
C14_TrimKeepsTail ==
    /\ Cardinality(snapshots) <= 1500
    /\ snapshots = {i \in 1..snap_id : i > snap_id - 1500}

(***************************************************************************)
(* C15: the writes of one Market step (mark-to-market, ticker-lookup rows, *)
(* the snapshot, the trim, the market/tick event) become visible together  *)
(* or not at all: while the step writes it holds DB_LOCK and no reader     *)
(* enters, a step that changes a table changes all of them, and a step     *)
(* that fails part-way changes none.                                       *)
(***************************************************************************)
C15_MarketStepAtomic ==
    [][/\ mkt.pc # 0 => db_lock = "market"
       /\ think' # think => mkt.pc = 0 /\ mkt'.pc = 0
       /\ mkt.pc # 0 /\ mkt'.pc # 0 => VisibleDb' = VisibleDb
       /\ VisibleDb' # VisibleDb =>
             /\ mkt.pc = Len(MarketStages) + 1
             /\ snap_id' = snap_id + 1
             /\ snap_id' \in snapshots'
             /\ snapshots' \subseteq snapshots \cup {snap_id'}
             /\ prices' = mkt.pm
             /\ events' = events + 1
             /\ lookups' = lookups + Cardinality(DOMAIN mkt.pm)
             /\ positions' = MarkToMarket(positions, mkt.pm)]_vars

\* a Market step part-way: the position is marked and the snapshot inserted
\* in the transaction, the event is not yet logged, and the tables other
\* connections see are as before
C15_Witness ==
    /\ mkt.pc = 4
    /\ mkt.tx.positions # positions
    /\ mkt.tx.snap_id = snap_id + 1
    /\ mkt.tx.events = events
    /\ db_lock = "market"

(***************************************************************************)
(* C16: for every worker (Market, Dream, Think) an error raised inside     *)
(* step_once is caught by the loop, recorded in that worker's stats        *)
(* last_error, and the loop goes on to its sleep instead of terminating.   *)
(***************************************************************************)
C16_ErrorsRecorded ==
    [][\A w \in Workers :
          StepRaises(w) => /\ workers'[w].pc = "sleep"
                           /\ workers'[w].last_error # NIL]_vars

(***************************************************************************)
(* Vocabulary of the stop claims                                           *)
(***************************************************************************)
\* stop_now() has been called on w and start() has not been called since
Halted(w) == ctl[w] = "stop_now"

\* a halted worker's thread terminates
HaltedTerminates ==
    \A w \in StopWorkers : Halted(w) ~> (workers[w].pc = "dead" \/ ~Halted(w))

C18_StartIdempotent ==
    [][\A w \in Workers :
          Start(w) /\ workers[w].pc # "dead" /\ workers[w].running
          => workers' = workers]_vars

\* start() was called on a worker in the middle of a step and returned
C18_Witness ==
    \E w \in Workers :
        /\ ctl[w] = "start_returned"
        /\ workers[w].running
        /\ workers[w].pc = "step"

(***************************************************************************)
(* C19: for any list returned by the committee LLM, the sanitized decision *)
(* set contains every investible exactly once and no ticker outside the    *)
(* investible set, every allocation_pct lies in [0, 80] and every action   *)
(* is BUY, SELL or HOLD.                                                   *)
(***************************************************************************)
C19_SanitizedOncePerInvestible ==
    san.done /\ san.raw.is_list =>
        /\ \A t \in Symbols :
              Cardinality({i \in 1..Len(san.out) : san.out[i].ticker = t}) = 1
        /\ \A i \in 1..Len(san.out) :
              /\ san.out[i].ticker \in Symbols
              /\ san.out[i].allocation_pct \in 0..80
              /\ san.out[i].action \in {"BUY", "SELL", "HOLD"}

(***************************************************************************)
(* C20: after a BUY the position's avg_cost equals                         *)
(* (old_avg*old_qty + price*shares)/new_qty (rounded down to the cent), a  *)
(* SELL leaves avg_cost unchanged, and a BUY on an already existing        *)
(* position leaves executed_at at the time of the first acquisition.       *)
(***************************************************************************)
\* the trade of this step of the executor, when it executes one
TradeOfStep ==
    IF /\ ex.phase = "run" /\ ex'.phase = "run"
       /\ Len(ex'.st.trades) = Len(ex.st.trades) + 1
    THEN {ex'.st.trades[Len(ex'.st.trades)]}
    ELSE {}

C20_AvgCostAndExecutedAt ==
    [][\A t \in TradeOfStep :
        LET old == ex.st.positions
            new == ex'.st.positions
            sym == t.symbol
            held == sym \in DOMAIN old
            old_qty == IF held THEN old[sym].qty ELSE 0
            old_cost == IF held THEN old[sym].avg_cost * old_qty ELSE 0
            total == old_cost + t.price * 100 * t.qty IN
        /\ t.side = "BUY" =>
              /\ sym \in DOMAIN new
              /\ new[sym].qty = old_qty + t.qty
              /\ new[sym].avg_cost * new[sym].qty <= total
              /\ total < (new[sym].avg_cost + 1) * new[sym].qty
              /\ held => new[sym].executed_at = old[sym].executed_at
        /\ t.side = "SELL" /\ sym \in DOMAIN new =>
              /\ held
              /\ new[sym].avg_cost = old[sym].avg_cost
              /\ new[sym].executed_at = old[sym].executed_at]_vars

\* a position bought at 500 in one cycle and added to at 10 in a later one:
\* its average cost lies between the two prices and its executed_at is the
\* first cycle
C20_Witness ==
    /\ "AAA" \in DOMAIN positions
    /\ positions["AAA"].avg_cost > 10 * 100
    /\ positions["AAA"].avg_cost < 500 * 100
    /\ positions["AAA"].executed_at = 1
    /\ cycles = 2

(***************************************************************************)
(* C21: every position row has qty > 0 at all times: no operation          *)
(* (executor pass, Market mark-to-market, broker sync) leaves a row with   *)
(* qty <= 0 in the table.                                                  *)
(***************************************************************************)
C21_PositionsPositive == \A s \in DOMAIN positions : positions[s].qty > 0

(***************************************************************************)
(* C27: the paper backend and the broker backend enforce identical guard   *)
(* rails: from the same cash and positions, with the same decisions and    *)
(* prices, execute_trades gives the same trades, positions and cash with   *)
(* either backend.  Checked on the execution of a Think step: whatever the *)
(* configured backend, the store after it is the one the paper executor    *)
(* computes.                                                               *)
(***************************************************************************)
C27_BackendsAgree ==
    [][ThinkStepEnds /\ cfg.auto_trade /\ think.starred /\ think.can_trade_now =>
        LET id == Len(insights)
            res == ExecutePaperTrades(cash, positions, trades,
                                      think.decisions, think.prices, id, id) IN
        /\ cash' = res.cash
        /\ positions' = res.positions
        /\ trades' = res.trades]_vars

(***************************************************************************)
(* C30: in the broker backend, when submitting the order for a slice       *)
(* fails, a skip reason is appended, local cash, position rows and trade   *)
(* rows are what they were before that slice, and the remaining slices of  *)
(* the cycle are still processed.                                          *)
(***************************************************************************)
C30_RefusedOrderFrame ==
    [][ex.phase = "broker" /\ ex'.phase = "broker" /\ ex'.i = ex.i + 1
       /\ ex'.order = "refused" =>
        /\ Len(ex'.st.skipped) = Len(ex.st.skipped) + 1
        /\ ex'.st.cash = ex.st.cash
        /\ ex'.st.positions = ex.st.positions
        /\ ex'.st.trades = ex.st.trades
        /\ ex'.st.executed = ex.st.executed
        /\ ex'.st.brk = ex.st.brk
        /\ ex'.pass = ex.pass]_vars

\* a cycle in which an order was refused and a later order was accepted
C30_Witness ==
    /\ ex.phase = "broker"
    /\ ex.order = "accepted"
    /\ \E k \in 1..Len(ex.st.skipped) : ex.st.skipped[k][1] = "order failed"
    /\ Len(ex.st.trades) > Len(ex.start.trades)
(***************************************************************************)
(* C22: whenever the store can be read, the weight of every edge row is    *)
(* the sum, over the channel rows stored for that edge, of the weight of   *)
(* the channel's base type times the row's strength.                       *)
(***************************************************************************)
RECURSIVE RowSum(_)
RowSum(rows) ==
    IF rows = {} THEN 0
    ELSE LET r == CHOOSE x \in rows : TRUE IN
         (IF r.channel.base \in DOMAIN CHANNEL_WEIGHTS
          THEN CHANNEL_WEIGHTS[r.channel.base] ELSE 50) * r.strength
         + RowSum(rows \ {r})

C22_WeightIsChannelSum ==
    \A k \in 1..Len(kg.edges) :
        kg.edges[k].weight = RowSum({r \in kg.channels : r.edge_id = k})

\* an edge assessed twice that now holds two channel rows
C22_Witness ==
    \E k \in 1..Len(kg.edges) :
        /\ kg.edges[k].assessment_count = 2
        /\ Cardinality({r \in kg.channels : r.edge_id = k}) = 2
        /\ kg.edges[k].weight > 0

(***************************************************************************)
(* C23: after every committed mutation of the graph (bootstrap, a Dream    *)
(* assessment, the creation of an option node) the degree of every node    *)
(* is the number of edge rows that have the node as node_a or as node_b.   *)
(***************************************************************************)
C23_DegreeIsIncidence ==
    \A n \in DOMAIN kg.nodes :
        kg.nodes[n].degree =
            Cardinality({k \in 1..Len(kg.edges) :
                            kg.edges[k].node_a = n \/ kg.edges[k].node_b = n})

\* an option node was just linked to its underlying, which a Dream
\* assessment had linked to a bellwether before
C23_Witness ==
    /\ kg.last.op = "create_option_node"
    /\ \E n \in OptionNodes(kg) : kg.nodes[n].degree = 1
    /\ kg.nodes["AAA"].degree = 2

(***************************************************************************)
(* C24: every edge row has node_a <= node_b in the order of the strings,   *)
(* and no two edge rows join the same unordered pair of nodes, in          *)
(* whichever order the endpoints were given and however often the pair is  *)
(* assessed.                                                               *)
(***************************************************************************)
C24_OrderedAndUnique ==
    \A k \in 1..Len(kg.edges) :
        /\ StrLeq(kg.edges[k].node_a, kg.edges[k].node_b)
        /\ \A j \in 1..Len(kg.edges) :
              j # k => {kg.edges[j].node_a, kg.edges[j].node_b}
                       # {kg.edges[k].node_a, kg.edges[k].node_b}

\* the pair (XLV, SPY), given with the larger id first, assessed twice
C24_Witness ==
    \E k \in 1..Len(kg.edges) :
        /\ kg.edges[k].node_a = "SPY" /\ kg.edges[k].node_b = "XLV"
        /\ kg.edges[k].assessment_count = 2

(***************************************************************************)
(* C25: at all times both endpoints of every edge row are node_ids of      *)
(* rows of the node table, and no node row is ever removed.                *)
(***************************************************************************)
C25_EndpointsExist ==
    [][/\ \A k \in 1..Len(kg'.edges) :
             {kg'.edges[k].node_a, kg'.edges[k].node_b} \subseteq DOMAIN kg'.nodes
       /\ DOMAIN kg.nodes \subseteq DOMAIN kg'.nodes]_vars

(***************************************************************************)
(* C26: when the Dream worker picks an option-option pair and skips it,    *)
(* the edge of the pair was assessed within the last hour; a pair whose    *)
(* edge was assessed more than an hour ago is not skipped.                 *)
(***************************************************************************)
C26_SkipOnlyWithinHour ==
    [][kg'.last.op = "assess_option_option" /\ kg'.clock = kg.clock
       /\ kg'.last.result = "skipped" =>
          \E k \in 1..Len(kg.edges) :
              /\ {kg.edges[k].node_a, kg.edges[k].node_b} = {kg'.last.a, kg'.last.b}
              /\ kg.edges[k].last_assessed # NULL
              /\ kg.clock - kg.edges[k].last_assessed <= HOUR]_vars

(***************************************************************************)
(* C28: with the explanation, the decisions and everything else the same,  *)
(* critic_score does not decrease when the confidence increases; with the  *)
(* confidence and everything else the same it does not decrease when the   *)
(* explanation grows from below EXPLANATION_MIN_LENGTH to at least that    *)
(* length; the score is always in [0, 1].                                  *)
(***************************************************************************)
C28_CriticMonotone ==
    /\ critic.cur.score # NULL => 0 <= critic.cur.score /\ critic.cur.score <= 10000
    /\ critic.prev.score # NULL /\ critic.prev.decisions = critic.cur.decisions =>
        /\ critic.prev.explanation = critic.cur.explanation
             /\ critic.prev.conf <= critic.cur.conf
           => critic.prev.score <= critic.cur.score
        /\ critic.prev.conf = critic.cur.conf
             /\ critic.prev.explanation.keyword = critic.cur.explanation.keyword
             /\ critic.prev.explanation.len < EXPLANATION_MIN_LENGTH
             /\ critic.cur.explanation.len >= EXPLANATION_MIN_LENGTH
           => critic.prev.score <= critic.cur.score

\* the same plan scored twice, the second time with a higher confidence
\* and an explanation that has grown over the threshold
C28_Witness ==
    /\ critic.prev.score # NULL
    /\ critic.prev.decisions = critic.cur.decisions
    /\ critic.prev.conf = critic.cur.conf
    /\ critic.prev.explanation.keyword = critic.cur.explanation.keyword
    /\ critic.prev.explanation.len < EXPLANATION_MIN_LENGTH
    /\ critic.cur.explanation.len >= EXPLANATION_MIN_LENGTH
    /\ critic.prev.score < critic.cur.score
    /\ Len(critic.cur.decisions) >= AGGRESSIVE

(***************************************************************************)
(* C29: when the primary provider fails for the pool as a whole (not       *)
(* reachable or not configured, delivering no symbol at all), the whole    *)
(* set of symbols is fetched from the fallback provider; when it fails for *)
(* single symbols only, these are left out of the result and no payload of *)
(* the other provider stands in for them.                                  *)
(***************************************************************************)
C29_PoolFallbackOnly ==
    fetch.done /\ fetch.provider = "alpaca" =>
        LET delivered == {s \in fetch.symbols :
                s \in fetch.cached \/ (fetch.client = "ok" /\ s \in fetch.alpaca_has)} IN
        IF (fetch.client # "ok" /\ delivered = {}) \/ fetch.raises
        THEN /\ DOMAIN fetch.result = fetch.symbols \cap fetch.yahoo_has
             /\ \A s \in DOMAIN fetch.result : fetch.result[s] = "yahoo"
        ELSE /\ DOMAIN fetch.result = delivered
             /\ \A s \in DOMAIN fetch.result : fetch.result[s] = "alpaca"

(***************************************************************************)
(* C31: every trade row written by the broker backend has, in its reason   *)
(* field, the broker order id of the order submitted for that slice.       *)
(***************************************************************************)
C31_ReasonHasOrderId ==
    ex.phase = "broker" =>
        \A k \in 1..Len(ex.st.executed) :
            LET row == ex.st.trades[Len(ex.start.trades) + k] IN
            \E j \in 1..Len(row.reason) : row.reason[j] = ex.st.executed[k].order_id

(***************************************************************************)
(* C32: the reconciliation utility derives each symbol's expected quantity *)
(* from the local trades recorded since the given date, and whenever that  *)
(* expected quantity differs from the broker's position for the symbol by  *)
(* more than the tolerance, it synthesizes a delta market order for the    *)
(* difference.  Stated on a run that found local trades since the date and *)
(* has compared: for every symbol, the net quantity of those trades        *)
(* against the quantity the broker holds.                                  *)
(***************************************************************************)
RECURSIVE NetTraded(_, _, _)
NetTraded(rows, sym, since) ==
    IF rows = << >> THEN 0
    ELSE LET t == Head(rows)
             q == IF t.symbol # sym \/ TradeTs(t) < since THEN 0
                  ELSE IF t.side = "BUY" THEN t.qty ELSE 0 - t.qty IN
         q + NetTraded(Tail(rows), sym, since)

BrokerHolds(sym) == IF sym \in DOMAIN recon.broker THEN recon.broker[sym] ELSE 0

C32_DeltaOrderPerDifference ==
    recon.phase \in {"submit", "done"} /\ recon.i > 0 =>
        \A sym \in Symbols :
            LET diff == NetTraded(trades, sym, recon.since) - BrokerHolds(sym) IN
            Abs(diff) >= TOLERANCE =>
                \E k \in 1..Len(recon.delta_orders) :
                    /\ recon.delta_orders[k].symbol = sym
                    /\ recon.delta_orders[k].qty = Abs(diff)
                    /\ recon.delta_orders[k].side = IF diff > 0 THEN "BUY" ELSE "SELL"

(***************************************************************************)
(* C33: a run of the reconciliation utility, dry-run or live, never        *)
(* inserts, updates or deletes a row of the local positions table: no step *)
(* of the utility changes the table.                                       *)
(***************************************************************************)
C33_PositionsUntouched ==
    [][recon' # recon => positions' = positions]_vars

(***************************************************************************)
(* C34: the total notional of the BUY trades appended in one               *)
(* execute_trades cycle never exceeds MAX_BUY_EQUITY_PCT_PER_CYCLE percent *)
(* of the equity at cycle start, however many BUY decisions the cycle has. *)
(***************************************************************************)
\* the trade rows the cycle in progress has appended
AppendedTrades == SubSeq(ex.st.trades, Len(ex.start.trades) + 1, Len(ex.st.trades))

RECURSIVE SideNotional(_, _)
SideNotional(rows, side) ==
    IF rows = << >> THEN 0
    ELSE (IF Head(rows).side = side THEN Head(rows).notional ELSE 0)
         + SideNotional(Tail(rows), side)

BuyCount(rows) == Len(SelectSeq(rows, LAMBDA t : t.side = "BUY"))

C34_BuyTotalWithinBudget ==
    ex.phase \in {"run", "done"} =>
        SideNotional(AppendedTrades, "BUY") * 100
            <= MAX_BUY_EQUITY_PCT_PER_CYCLE * ex.start.equity

\* a finished cycle with several BUY trades that used the whole budget
C34_Witness ==
    /\ ex.phase = "done"
    /\ BuyCount(AppendedTrades) >= 2
    /\ SideNotional(AppendedTrades, "BUY")
           = (MAX_BUY_EQUITY_PCT_PER_CYCLE * ex.start.equity) \div 100

(***************************************************************************)
(* C35: a paper cycle conserves value: the final cash is the starting cash *)
(* plus the SELL notionals minus the BUY notionals, and the equity (cash   *)
(* plus quantity times price, at the cycle's prices) is the same before    *)
(* and after.  Quantities are counted in 1/100 share and notionals in      *)
(* whole dollars, so "the same" is up to the rounding of one counted unit  *)
(* per trade: less than a dollar on a SELL, less than the price of 1/100   *)
(* share on a BUY.                                                         *)
(***************************************************************************)
\* cash + sum of qty * price, in 1/100 dollar, without rounding
ValueAt(c, pos, pr) ==
    LET v == [s \in DOMAIN pos |-> pos[s].qty * RowPrice(pos, pr, s)] IN
    c * QTY_SCALE + SumOver(v, DOMAIN pos)

RECURSIVE RoundingOf(_)
RoundingOf(rows) ==
    IF rows = << >> THEN 0
    ELSE Max(QTY_SCALE, Head(rows).price) + RoundingOf(Tail(rows))

C35_CycleConservesValue ==
    ex.phase \in {"run", "done"} =>
        /\ ex.st.cash = ex.start.cash + SideNotional(AppendedTrades, "SELL")
                                      - SideNotional(AppendedTrades, "BUY")
        /\ LET before == ValueAt(ex.start.cash, ex.start.positions, ex.pr)
               after == ValueAt(ex.st.cash, ex.st.positions, ex.pr) IN
           /\ after - before <= RoundingOf(AppendedTrades)
           /\ before - after <= RoundingOf(AppendedTrades)

\* a finished cycle that sold and bought, at a price above one dollar
C35_Witness ==
    /\ ex.phase = "done"
    /\ SideNotional(AppendedTrades, "SELL") > 0
    /\ SideNotional(AppendedTrades, "BUY") > 0
    /\ \E k \in 1..Len(AppendedTrades) : AppendedTrades[k].price > QTY_SCALE

(***************************************************************************)
(* C36: in one cycle the total quantity sold of any symbol is at most      *)
(* MAX_SELL_HOLDING_PCT_PER_CYCLE percent of the quantity held at cycle    *)
(* start, even when the decision list holds several SELL decisions for     *)
(* that symbol.                                                            *)
(***************************************************************************)
RECURSIVE SoldQty(_, _)
SoldQty(rows, sym) ==
    IF rows = << >> THEN 0
    ELSE (IF Head(rows).side = "SELL" /\ Head(rows).symbol = sym
          THEN Head(rows).qty ELSE 0) + SoldQty(Tail(rows), sym)

C36_SellTotalWithinCap ==
    ex.phase \in {"run", "done"} =>
        \A sym \in Symbols :
            SoldQty(AppendedTrades, sym) * 100
                <= MAX_SELL_HOLDING_PCT_PER_CYCLE * ex.start.qty_by_sym[sym]

(***************************************************************************)
(* C37: under any interleaving of start() and stop_now() issued            *)
(* concurrently on one worker, at most one loop task is alive at any time, *)
(* and whenever running is true and no call is in progress a loop task is  *)
(* alive.                                                                  *)
(***************************************************************************)
NoCallInProgress == \A r \in Requesters : life.req[r].pc = "idle"

C37_OneLoopTask ==
    /\ Cardinality(AliveLoops) <= 1
    /\ life.running /\ NoCallInProgress => AliveLoops # {}

(***************************************************************************)
(* C38: if start() is called after stop_now(), the worker ends up running  *)
(* again, also when the previous loop task has not yet exited when start() *)
(* is called: when that start() returns, running is true, the stop event   *)
(* is clear and a loop thread is alive.                                    *)
(***************************************************************************)
C38_RestartRuns ==
    [][\A w \in Workers :
          Start(w) /\ ctl[w] = "stop_now" =>
              /\ workers'[w].running
              /\ ~workers'[w].stop
              /\ workers'[w].pc # "dead"]_vars

(***************************************************************************)
(* C39: no task holds the store's process-wide write lock while it waits   *)
(* for an LLM provider call: whenever the chat_json call of a task is at   *)
(* the provider, DB_LOCK is not held by that task.                         *)
(***************************************************************************)
C39_NoLockAcrossLlm ==
    \A c \in Callers : chat[c].pc = "call" => db_lock # c

(***************************************************************************)
(* C40: the LLM budget stats exposed through the state endpoint describe   *)
(* the budget chat_json draws from: after a chat_json call that acquired,  *)
(* the reported calls_used is one higher, and a failure recorded by the    *)
(* adapter appears as the reported last_error.                             *)
(***************************************************************************)
C40_ReportedBudgetIsChatBudget ==
    /\ [][\A c \in Callers :
            chat[c].pc = "idle" /\ chat'[c].acquired =>
                ReportedLlm'.calls_used = ReportedLlm.calls_used + 1]_vars
    /\ [](budget.last_error # NIL => ReportedLlm.last_error = budget.last_error)
====
